---- MODULE Spec2Model ----
(***************************************************************************)
(* Real-time offer selection of the upsell engine                          *)
(* (integration-bridge/production/upsell-engine-manager.js).               *)
(*                                                                         *)
(* JavaScript values are modelled as follows:                              *)
(*   - an optional value (a field that may be undefined/null) is a         *)
(*     sequence: <<>> when absent, <<v>> when present;                     *)
(*   - a string that the code inspects character by character (a product   *)
(*     title, a keyword) is a sequence of one-character strings;           *)
(*   - an array is a sequence, an object a record.                         *)
(***************************************************************************)
EXTENDS Integers, Sequences, FiniteSets, TLC

VARIABLES
    upsell_rules,        \* table upsell_rules: rows in the order the store returns them
    campaigns,           \* table campaigns
    upsell_evaluations,  \* table upsell_evaluations (insert only)
    now,                 \* wall clock
    cartItems,           \* arguments of evaluateUpsells
    sessionId,
    user_id,
    timeContext,
    pc,                  \* position of the evaluateUpsells call
    calls,               \* number of evaluateUpsells calls started
    rulesRead,           \* outcome of the upsell_rules select of this call
    campaignsRead,       \* outcome of the campaigns select of this call
    activeRules,         \* locals of evaluateUpsells
    activeCampaigns,
    matchingCampaigns,
    matchingRules,
    overriddenRules,
    bestOffer,
    insertAttempts,      \* inserts issued by trackUpsellEvaluation in this call
    insertOutcome,       \* outcome of the insert of this call
    result,              \* what the call gave back to its caller
    prevResult,          \* result of the previous call
    other,               \* a second evaluateUpsells call in flight: its arguments,
                         \* position, locals and result
    update,              \* the updateRulePriority call: position, arguments, the
                         \* priority it read, the rules updated so far
    isRunning,           \* ProductionOrchestrator.isRunning
    scheduledJobs,       \* ProductionOrchestrator.scheduledJobs: job name -> timer
    timers,              \* the interval timers created so far, live or cleared
    daily                \* the generateDailyInsights run: position, users, results

vars == << upsell_rules, campaigns, upsell_evaluations, now, cartItems, sessionId,
           user_id, timeContext, pc, calls, rulesRead, campaignsRead, activeRules,
           activeCampaigns, matchingCampaigns, matchingRules, overriddenRules,
           bestOffer, insertAttempts, insertOutcome, result, prevResult,
           other, update, isRunning, scheduledJobs, timers, daily >>

\* the state of ProductionOrchestrator
orchVars == << isRunning, scheduledJobs, timers, daily >>

-----------------------------------------------------------------------------
(* Bounds *)

\* rows in upsell_rules
MaxRules == 2
\* rows in campaigns
MaxCampaigns == 2
\* successive evaluateUpsells calls in one behaviour
MaxCalls == 2
\* updateRulePriority calls in a run
MaxUpdates == 3
\* startScheduledJobs calls in a run
MaxStarts == 2
\* active users in profiles
MaxUsers == 3
\* generateDailyInsights runs
MaxRuns == 1

-----------------------------------------------------------------------------
(* JavaScript helpers *)

None == << >>
Some(v) == << v >>

\* truthiness of an optional number: undefined and 0 are falsy
TruthyNum(x) == x # None /\ x[1] # 0

\* a || b on optional numbers
OrNum(a, b) == IF TruthyNum(a) THEN a ELSE b

\* NaN, the value of arithmetic on undefined
NaN == None

\* n > x, n < x, n >= x, n <= x, n === x of a number or NaN against an
\* optional number: every comparison with NaN or undefined is false
GtOpt(n, x) == n # NaN /\ x # None /\ n[1] > x[1]
LtOpt(n, x) == n # NaN /\ x # None /\ n[1] < x[1]
GeOpt(n, x) == n # NaN /\ x # None /\ n[1] >= x[1]
LeOpt(n, x) == n # NaN /\ x # None /\ n[1] <= x[1]
EqOpt(n, x) == n # NaN /\ x # None /\ n[1] = x[1]

\* item.price, item.quantity: undefined when the item has no such property
Prop(item, name) == IF name \in DOMAIN item THEN Some(item[name]) ELSE None

\* a * b and a + b, NaN when an operand is undefined or NaN
Times(a, b) == IF a = None \/ b = None THEN NaN ELSE Some(a[1] * b[1])
Plus(a, b) == IF a = None \/ b = None THEN NaN ELSE Some(a[1] + b[1])

RECURSIVE SeqFilter(_, _)
\* Array.prototype.filter with the predicate given as the set of kept elements
SeqFilter(s, keep) ==
    IF s = << >> THEN << >>
    ELSE IF Head(s) \in keep THEN << Head(s) >> \o SeqFilter(Tail(s), keep)
         ELSE SeqFilter(Tail(s), keep)

Range(s) == { s[i] : i \in DOMAIN s }

UpperCase == << "A","B","C","D","E","F","G","H","I","J","K","L","M",
                "N","O","P","Q","R","S","T","U","V","W","X","Y","Z" >>
LowerCase == << "a","b","c","d","e","f","g","h","i","j","k","l","m",
                "n","o","p","q","r","s","t","u","v","w","x","y","z" >>

\* String.prototype.toLowerCase
toLowerCase(s) ==
    [ i \in DOMAIN s |->
        IF \E k \in DOMAIN UpperCase : UpperCase[k] = s[i]
        THEN LowerCase[CHOOSE k \in DOMAIN UpperCase : UpperCase[k] = s[i]]
        ELSE s[i] ]

\* String.prototype.includes
includes(s, kw) ==
    \E i \in 0..(Len(s) - Len(kw)) : SubSeq(s, i + 1, i + Len(kw)) = kw

-----------------------------------------------------------------------------
(* Condition evaluators *)

\* the keyword table of extractCategory, in Object.entries order
categories == <<
    [ category |-> "coffee",
      keywords |-> << <<"c","o","f","f","e","e">>, <<"m","u","g">>,
                      <<"b","e","a","n","s">>, <<"g","r","i","n","d","e","r">> >> ],
    [ category |-> "electronics",
      keywords |-> << <<"h","e","a","d","p","h","o","n","e","s">>,
                      <<"s","p","e","a","k","e","r">>,
                      <<"w","i","r","e","l","e","s","s">>,
                      <<"b","l","u","e","t","o","o","t","h">> >> ],
    [ category |-> "kitchenware",
      keywords |-> << <<"m","u","g">>, <<"g","r","i","n","d","e","r">>,
                      <<"k","i","t","c","h","e","n">> >> ],
    [ category |-> "food",
      keywords |-> << <<"b","e","a","n","s">>, <<"o","r","g","a","n","i","c">> >> ] >>

\* extractCategory matching the keywords against the title as written
extractCategory_caseSensitive(title) ==
    LET lowerTitle == title
        hit(i) == \E k \in DOMAIN categories[i].keywords :
                      includes(lowerTitle, categories[i].keywords[k])
    IN  IF \E i \in DOMAIN categories : hit(i)
        THEN categories[CHOOSE i \in DOMAIN categories :
                            hit(i) /\ \A j \in 1..(i - 1) : ~hit(j)].category
        ELSE "general"

extractCategory(title) ==
    LET lowerTitle == toLowerCase(title)
        hit(i) == \E k \in DOMAIN categories[i].keywords :
                      includes(lowerTitle, categories[i].keywords[k])
    IN  IF \E i \in DOMAIN categories : hit(i)
        THEN categories[CHOOSE i \in DOMAIN categories :
                            hit(i) /\ \A j \in 1..(i - 1) : ~hit(j)].category
        ELSE "general"

\* evaluateCategoryConditions with 'equals' tested by some instead of every
evaluateCategoryConditions_equalsSome(conditions, items) ==
    LET category == conditions.category
        category_operator == IF conditions.category_operator = None
                             THEN "contains"
                             ELSE conditions.category_operator[1]
        cartCategories == [ i \in DOMAIN items |-> extractCategory(items[i].title) ]
    IN  IF category = None \/ category = Some("") THEN FALSE
        ELSE CASE category_operator = "contains" ->
                    \E i \in DOMAIN cartCategories : cartCategories[i] = category[1]
               [] category_operator = "equals" ->
                    \E i \in DOMAIN cartCategories : cartCategories[i] = category[1]
               [] category_operator = "not_contains" ->
                    ~(\E i \in DOMAIN cartCategories : cartCategories[i] = category[1])
               [] OTHER -> FALSE

evaluateCategoryConditions(conditions, items) ==
    LET category == conditions.category
        category_operator == IF conditions.category_operator = None
                             THEN "contains"
                             ELSE conditions.category_operator[1]
        cartCategories == [ i \in DOMAIN items |-> extractCategory(items[i].title) ]
    IN  IF category = None \/ category = Some("") THEN FALSE
        ELSE CASE category_operator = "contains" ->
                    \E i \in DOMAIN cartCategories : cartCategories[i] = category[1]
               [] category_operator = "equals" ->
                    \A i \in DOMAIN cartCategories : cartCategories[i] = category[1]
               [] category_operator = "not_contains" ->
                    ~(\E i \in DOMAIN cartCategories : cartCategories[i] = category[1])
               [] OTHER -> FALSE

RECURSIVE cartTotalOf_missingAsZero(_)
\* cartTotalOf counting a missing price or quantity as 0
cartTotalOf_missingAsZero(items) ==
    IF items = << >> THEN Some(0)
    ELSE Plus(cartTotalOf_missingAsZero(SubSeq(items, 1, Len(items) - 1)),
              Times(OrNum(Prop(items[Len(items)], "price"), Some(0)),
                    OrNum(Prop(items[Len(items)], "quantity"), Some(0))))

RECURSIVE cartTotalOf(_)
\* cartItems.reduce((sum, item) => sum + item.price * item.quantity, 0)
cartTotalOf(items) ==
    IF items = << >> THEN Some(0)
    ELSE Plus(cartTotalOf(SubSeq(items, 1, Len(items) - 1)),
              Times(Prop(items[Len(items)], "price"),
                    Prop(items[Len(items)], "quantity")))

\* evaluateCartValueConditions with >= and <= for greater_than and less_than
evaluateCartValueConditions_orEqual(conditions, items) ==
    LET cart_value_operator == conditions.cart_value_operator
        cart_value == conditions.cart_value
        cart_value_min == conditions.cart_value_min
        cart_value_max == conditions.cart_value_max
        cartTotal == cartTotalOf(items)
    IN  CASE cart_value_operator = Some("greater_than") ->
                GeOpt(cartTotal, OrNum(cart_value, cart_value_min))
          [] cart_value_operator = Some("less_than") ->
                LeOpt(cartTotal, OrNum(cart_value, cart_value_max))
          [] cart_value_operator = Some("equals") ->
                EqOpt(cartTotal, cart_value)
          [] cart_value_operator = Some("between") ->
                GeOpt(cartTotal, cart_value_min) /\ LeOpt(cartTotal, cart_value_max)
          [] OTHER -> FALSE

\* evaluateCartValueConditions with the two bounds of 'between' joined by ||
evaluateCartValueConditions_betweenOr(conditions, items) ==
    LET cart_value_operator == conditions.cart_value_operator
        cart_value == conditions.cart_value
        cart_value_min == conditions.cart_value_min
        cart_value_max == conditions.cart_value_max
        cartTotal == cartTotalOf(items)
    IN  CASE cart_value_operator = Some("greater_than") ->
                GtOpt(cartTotal, OrNum(cart_value, cart_value_min))
          [] cart_value_operator = Some("less_than") ->
                LtOpt(cartTotal, OrNum(cart_value, cart_value_max))
          [] cart_value_operator = Some("equals") ->
                EqOpt(cartTotal, cart_value)
          [] cart_value_operator = Some("between") ->
                GeOpt(cartTotal, cart_value_min) \/ LeOpt(cartTotal, cart_value_max)
          [] OTHER -> FALSE

evaluateCartValueConditions(conditions, items) ==
    LET cart_value_operator == conditions.cart_value_operator
        cart_value == conditions.cart_value
        cart_value_min == conditions.cart_value_min
        cart_value_max == conditions.cart_value_max
        cartTotal == cartTotalOf(items)
    IN  CASE cart_value_operator = Some("greater_than") ->
                GtOpt(cartTotal, OrNum(cart_value, cart_value_min))
          [] cart_value_operator = Some("less_than") ->
                LtOpt(cartTotal, OrNum(cart_value, cart_value_max))
          [] cart_value_operator = Some("equals") ->
                EqOpt(cartTotal, cart_value)
          [] cart_value_operator = Some("between") ->
                GeOpt(cartTotal, cart_value_min) /\ LeOpt(cartTotal, cart_value_max)
          [] OTHER -> FALSE

\* evaluateTimeConditions rejecting a time on site equal to time_on_site_min
evaluateTimeConditions_strictMin(conditions, tc) ==
    LET time_on_site_min == conditions.time_on_site_min
        time_on_site_max == conditions.time_on_site_max
        active_time_on_site_min == conditions.active_time_on_site_min
        timeOnSite == OrNum(tc.timeOnSite, Some(0))[1]
        activeTimeOnSite == OrNum(tc.activeTimeOnSite, Some(0))[1]
    IN  IF TruthyNum(time_on_site_min) /\ timeOnSite <= time_on_site_min[1] THEN FALSE
        ELSE IF TruthyNum(time_on_site_max) /\ timeOnSite > time_on_site_max[1] THEN FALSE
        ELSE IF TruthyNum(active_time_on_site_min)
                /\ activeTimeOnSite < active_time_on_site_min[1] THEN FALSE
        ELSE TRUE

evaluateTimeConditions(conditions, tc) ==
    LET time_on_site_min == conditions.time_on_site_min
        time_on_site_max == conditions.time_on_site_max
        active_time_on_site_min == conditions.active_time_on_site_min
        timeOnSite == OrNum(tc.timeOnSite, Some(0))[1]
        activeTimeOnSite == OrNum(tc.activeTimeOnSite, Some(0))[1]
    IN  IF TruthyNum(time_on_site_min) /\ timeOnSite < time_on_site_min[1] THEN FALSE
        ELSE IF TruthyNum(time_on_site_max) /\ timeOnSite > time_on_site_max[1] THEN FALSE
        ELSE IF TruthyNum(active_time_on_site_min)
                /\ activeTimeOnSite < active_time_on_site_min[1] THEN FALSE
        ELSE TRUE

-----------------------------------------------------------------------------
(* Store reads *)

\* getActiveRules: the select on upsell_rules and, per row, the rpc for the
\* target products; a failed select is logged and answered with []
getActiveRules(table, uid, outcome) ==
    IF outcome = "error" THEN << >>
    ELSE LET data == SeqFilter(table, { r \in Range(table) :
                         r.user_id = uid /\ r.is_active /\ r.status = "active" })
         IN  [ i \in DOMAIN data |->
                 [ data[i] EXCEPT !.target_products =
                     IF data[i].target_products = None THEN << >>
                     ELSE data[i].target_products[1] ] ]

\* getActiveCampaigns: the select on campaigns and, per row, the rpcs for the
\* trigger and upsell products; a failed select is logged and answered with []
getActiveCampaigns(table, uid, outcome) ==
    IF outcome = "error" THEN << >>
    ELSE LET data == SeqFilter(table, { c \in Range(table) :
                         c.user_id = uid /\ c.status = "active" })
         IN  [ i \in DOMAIN data |->
                 [ data[i] EXCEPT
                     !.trigger_products =
                         IF data[i].trigger_products = None THEN << >>
                         ELSE data[i].trigger_products[1],
                     !.upsell_products =
                         IF data[i].upsell_products = None THEN << >>
                         ELSE data[i].upsell_products[1] ] ]

-----------------------------------------------------------------------------
(* Matchers *)

evaluateCampaigns(cs, items, tc) ==
    SeqFilter(cs, { campaign \in Range(cs) :
        LET hasTriggerProducts ==
                \E t \in DOMAIN campaign.trigger_products :
                    \E i \in DOMAIN items :
                        items[i].product_id = campaign.trigger_products[t]
        IN  hasTriggerProducts })

\* evaluateRules keeping a rule of a trigger_type it has no evaluator for
evaluateRules_defaultKeep(rules, items, tc) ==
    SeqFilter(rules, { rule \in Range(rules) :
        LET conditions == rule.trigger_conditions
        IN  CASE rule.trigger_type = "category" ->
                    evaluateCategoryConditions(conditions, items)
              [] rule.trigger_type = "cart_value" ->
                    evaluateCartValueConditions(conditions, items)
              [] rule.trigger_type = "time_based" ->
                    evaluateTimeConditions(conditions, tc)
              [] OTHER -> TRUE })

evaluateRules(rules, items, tc) ==
    SeqFilter(rules, { rule \in Range(rules) :
        LET conditions == rule.trigger_conditions
        IN  CASE rule.trigger_type = "category" ->
                    evaluateCategoryConditions(conditions, items)
              [] rule.trigger_type = "cart_value" ->
                    evaluateCartValueConditions(conditions, items)
              [] rule.trigger_type = "time_based" ->
                    evaluateTimeConditions(conditions, tc)
              [] OTHER -> FALSE })

-----------------------------------------------------------------------------
(* Override resolver *)

\* Array.prototype.findIndex(rule => rule.id === id), 1-based; 0 for -1
findIndex(rules, id) ==
    IF \E i \in DOMAIN rules : rules[i].id = id
    THEN CHOOSE i \in DOMAIN rules :
             rules[i].id = id /\ \A j \in 1..(i - 1) : rules[j].id # id
    ELSE 0

\* Array.prototype.splice(index, 1)
splice1(s, index) == SubSeq(s, 1, index - 1) \o SubSeq(s, index + 1, Len(s))

\* override.enhanced_settings?.priority_boost || 0
priorityBoost(override) ==
    IF override.enhanced_settings = None THEN 0
    ELSE OrNum(override.enhanced_settings[1].priority_boost, Some(0))[1]

\* applyOverride with the boost added to the priority of the rule as it was
\* passed in instead of to the working copy's
applyOverride_fromOriginal(st, override) ==
    LET ruleIndex == findIndex(st.overriddenRules, override.rule_id)
    IN  IF ruleIndex = 0 THEN st
        ELSE CASE override.override_type = "enhance" ->
                    [ st EXCEPT !.overriddenRules[ruleIndex].priority =
                          st.rules[findIndex(st.rules, override.rule_id)].priority
                          + priorityBoost(override) ]
               [] override.override_type = "suppress" ->
                    [ st EXCEPT !.overriddenRules = splice1(st.overriddenRules, ruleIndex) ]
               [] OTHER -> st

\* applyOverride with the suppress case missing
applyOverride_noSuppress(st, override) ==
    LET ruleIndex == findIndex(st.overriddenRules, override.rule_id)
    IN  IF ruleIndex = 0 THEN st
        ELSE CASE override.override_type = "enhance" ->
                    [ st EXCEPT !.overriddenRules[ruleIndex].priority =
                          st.overriddenRules[ruleIndex].priority + priorityBoost(override) ]
               [] OTHER -> st

\* applyOverride with the boosted priority clamped to the nominal range,
\* as updateRulePriority does
applyOverride_clamped(st, override) ==
    LET ruleIndex == findIndex(st.overriddenRules, override.rule_id)
        boosted == st.overriddenRules[ruleIndex].priority + priorityBoost(override)
    IN  IF ruleIndex = 0 THEN st
        ELSE CASE override.override_type = "enhance" ->
                    [ st EXCEPT !.overriddenRules[ruleIndex].priority =
                          IF boosted > 100 THEN 100
                          ELSE IF boosted < 1 THEN 1 ELSE boosted ]
               [] override.override_type = "suppress" ->
                    [ st EXCEPT !.overriddenRules = splice1(st.overriddenRules, ruleIndex) ]
               [] OTHER -> st

\* applyOverride working on the argument array and its rule objects
\* (no copy of the array, no copy of the enhanced rule)
applyOverride_inPlace(st, override) ==
    LET ruleIndex == findIndex(st.rules, override.rule_id)
    IN  IF ruleIndex = 0 THEN st
        ELSE CASE override.override_type = "enhance" ->
                    LET upd == [ st.rules EXCEPT ![ruleIndex].priority =
                                   st.rules[ruleIndex].priority + priorityBoost(override) ]
                    IN  [ overriddenRules |-> upd, rules |-> upd ]
               [] override.override_type = "suppress" ->
                    LET upd == splice1(st.rules, ruleIndex)
                    IN  [ overriddenRules |-> upd, rules |-> upd ]
               [] OTHER -> st

\* The body of the inner forEach of applyRuleOverrides.  st.overriddenRules is
\* the working copy, st.rules the array that was passed in.
applyOverride(st, override) ==
    LET ruleIndex == findIndex(st.overriddenRules, override.rule_id)
    IN  IF ruleIndex = 0 THEN st
        ELSE CASE override.override_type = "enhance" ->
                    [ st EXCEPT !.overriddenRules[ruleIndex].priority =
                          st.overriddenRules[ruleIndex].priority + priorityBoost(override) ]
               [] override.override_type = "suppress" ->
                    [ st EXCEPT !.overriddenRules = splice1(st.overriddenRules, ruleIndex) ]
               [] OTHER -> st

RECURSIVE applyCampaignOverrides(_, _)
\* campaign.rule_overrides.forEach(...)
applyCampaignOverrides(st, overrides) ==
    IF overrides = << >> THEN st
    ELSE applyCampaignOverrides(applyOverride(st, Head(overrides)), Tail(overrides))

RECURSIVE applyCampaigns(_, _)
\* campaigns.forEach(...)
applyCampaigns(st, cs) ==
    IF cs = << >> THEN st
    ELSE applyCampaigns(
            IF Head(cs).rule_overrides = None THEN st
            ELSE applyCampaignOverrides(st, Head(cs).rule_overrides[1]),
            Tail(cs))

\* applyRuleOverrides: .overriddenRules is the returned array, .rules the
\* argument array as it is after the call
applyRuleOverrides(rules, cs) ==
    applyCampaigns([ overriddenRules |-> rules, rules |-> rules ], cs)

-----------------------------------------------------------------------------
(* Offer selector *)

\* x || 0 on a number
OrZero(x) == IF x = 0 THEN 0 ELSE x

RECURSIVE sortByPriority_ascending(_)
\* sortByPriority with the comparator reversed (a.priority - b.priority)
sortByPriority_ascending(s) ==
    IF s = << >> THEN << >>
    ELSE LET front == sortByPriority_ascending(SubSeq(s, 1, Len(s) - 1))
             x == s[Len(s)]
             before(o) == o.priority <= x.priority
             after(o) == o.priority > x.priority
         IN  SelectSeq(front, before) \o << x >> \o SelectSeq(front, after)

RECURSIVE sortByPriority(_)
\* allOffers.sort((a, b) => b.priority - a.priority): stable, descending
sortByPriority(s) ==
    IF s = << >> THEN << >>
    ELSE LET front == sortByPriority(SubSeq(s, 1, Len(s) - 1))
             x == s[Len(s)]
             before(o) == o.priority >= x.priority
             after(o) == o.priority < x.priority
         IN  SelectSeq(front, before) \o << x >> \o SelectSeq(front, after)

\* selectBestUpsell with the rules put into allOffers before the campaigns
selectBestUpsell_rulesFirst(cs, rules, items) ==
    LET allOffers ==
            [ i \in DOMAIN rules |->
                [ type |-> "rule", data |-> rules[i],
                  priority |-> OrZero(rules[i].priority) ] ]
            \o
            [ i \in DOMAIN cs |->
                [ type |-> "campaign", data |-> cs[i],
                  priority |-> OrZero(cs[i].campaign_priority) ] ]
        sorted == sortByPriority(allOffers)
    IN  IF Len(sorted) = 0 THEN None
        ELSE LET best == sorted[1]
             IN  Some([ type |-> best.type,
                        id |-> best.data.id,
                        title |-> best.data.name,
                        target_products |->
                            IF "target_products" \in DOMAIN best.data
                            THEN best.data.target_products
                            ELSE best.data.upsell_products,
                        display_type |->
                            IF "display_type" \in DOMAIN best.data
                               /\ best.data.display_type # None
                            THEN best.data.display_type[1]
                            ELSE "popup" ])

\* selectBestUpsell giving up when no rule is left
selectBestUpsell_needsRule(cs, rules, items) ==
    LET allOffers ==
            [ i \in DOMAIN cs |->
                [ type |-> "campaign", data |-> cs[i],
                  priority |-> OrZero(cs[i].campaign_priority) ] ]
            \o
            [ i \in DOMAIN rules |->
                [ type |-> "rule", data |-> rules[i],
                  priority |-> OrZero(rules[i].priority) ] ]
        sorted == sortByPriority(allOffers)
    IN  IF Len(rules) = 0 THEN None
        ELSE LET best == sorted[1]
             IN  Some([ type |-> best.type,
                        id |-> best.data.id,
                        title |-> best.data.name,
                        target_products |->
                            IF "target_products" \in DOMAIN best.data
                            THEN best.data.target_products
                            ELSE best.data.upsell_products,
                        display_type |->
                            IF "display_type" \in DOMAIN best.data
                               /\ best.data.display_type # None
                            THEN best.data.display_type[1]
                            ELSE "popup" ])

selectBestUpsell(cs, rules, items) ==
    LET allOffers ==
            [ i \in DOMAIN cs |->
                [ type |-> "campaign", data |-> cs[i],
                  priority |-> OrZero(cs[i].campaign_priority) ] ]
            \o
            [ i \in DOMAIN rules |->
                [ type |-> "rule", data |-> rules[i],
                  priority |-> OrZero(rules[i].priority) ] ]
        sorted == sortByPriority(allOffers)
    IN  IF Len(sorted) = 0 THEN None
        ELSE LET best == sorted[1]
             IN  Some([ type |-> best.type,
                        id |-> best.data.id,
                        title |-> best.data.name,
                        target_products |->
                            IF "target_products" \in DOMAIN best.data
                            THEN best.data.target_products
                            ELSE best.data.upsell_products,
                        display_type |->
                            IF "display_type" \in DOMAIN best.data
                               /\ best.data.display_type # None
                            THEN best.data.display_type[1]
                            ELSE "popup" ])

-----------------------------------------------------------------------------
(* Evaluation recorder *)

\* the row trackUpsellEvaluation builds (the random id is left out)
evaluationRecord(sid, items, offer, uid, time) ==
    [ session_id |-> sid,
      user_id |-> uid,
      cart_items |-> items,
      offer_id |-> IF offer = None THEN None ELSE Some(offer[1].id),
      offer_type |-> IF offer = None THEN None ELSE Some(offer[1].type),
      created_at |-> time ]

\* trackUpsellEvaluation writing over the session's earlier record
trackUpsellEvaluation_upsert(table, record, outcome) ==
    IF outcome # "ok" THEN table
    ELSE IF \E i \in DOMAIN table : table[i].session_id = record.session_id
         THEN [ i \in DOMAIN table |->
                  IF table[i].session_id = record.session_id THEN record
                  ELSE table[i] ]
         ELSE Append(table, record)

\* the insert into upsell_evaluations and its catch block
trackUpsellEvaluation(table, record, outcome) ==
    IF outcome = "ok" THEN Append(table, record) ELSE table

-----------------------------------------------------------------------------
(* The stores, carts and contexts the model starts from *)

NoConditions ==
    [ category |-> None, category_operator |-> None,
      cart_value_operator |-> None, cart_value |-> None,
      cart_value_min |-> None, cart_value_max |-> None,
      time_on_site_min |-> None, time_on_site_max |-> None,
      active_time_on_site_min |-> None ]

RuleRow(id, owner, status, priority, type, conditions) ==
    [ id |-> id, user_id |-> owner, name |-> id, status |-> status,
      is_active |-> TRUE, priority |-> priority, trigger_type |-> type,
      trigger_conditions |-> conditions,
      target_products |-> Some(<< "P9" >>), display_type |-> Some("cart") ]

RuleCatalog ==
    { RuleRow("R1", "u1", "active", 40, "cart_value",
              [ NoConditions EXCEPT !.cart_value_operator = Some("greater_than"),
                                    !.cart_value_min = Some(50) ]),
      RuleRow("R2", "u1", "active", 100, "category",
              [ NoConditions EXCEPT !.category = Some("coffee"),
                                    !.category_operator = Some("contains") ]),
      RuleRow("R3", "u1", "active", 40, "time_based",
              [ NoConditions EXCEPT !.time_on_site_min = Some(30) ]),
      RuleRow("R4", "u1", "draft", 60, "cart_value",
              [ NoConditions EXCEPT !.cart_value_operator = Some("greater_than"),
                                    !.cart_value_min = Some(50) ]) }

Override(rule_id, type, settings) ==
    [ rule_id |-> rule_id, override_type |-> type, enhanced_settings |-> settings ]

Boost(n) == Some([ priority_boost |-> Some(n) ])

CampaignRow(id, status, priority, override, triggers, overrides, start, end) ==
    [ id |-> id, user_id |-> "u1", name |-> id, status |-> status,
      campaign_priority |-> priority, override_existing_rules |-> override,
      trigger_products |-> Some(triggers), upsell_products |-> Some(<< "P8" >>),
      rule_overrides |-> overrides, start_date |-> start, end_date |-> end ]

CampaignCatalog ==
    { CampaignRow("K1", "active", 10, TRUE, << "P1" >>, None, 1, Some(3)),
      CampaignRow("K2", "active", 40, FALSE, << "P1" >>,
                  Some(<< Override("R1", "enhance", Boost(20)),
                          Override("R2", "suppress", None) >>), 1, None),
      CampaignRow("K3", "active", 60, FALSE, << "P1" >>,
                  Some(<< Override("R1", "suppress", None),
                          Override("R2", "enhance", Boost(20)) >>), 1, Some(1)),
      CampaignRow("K4", "active", 100, TRUE, << "P2" >>,
                  Some(<< Override("R1", "suppress", None),
                          Override("R2", "suppress", None) >>), 1, None),
      CampaignRow("K5", "active", 0, FALSE, << "P2", "P1" >>,
                  Some(<< Override("R3", "enhance", None),
                          Override("R1", "enhance", Some([ priority_boost |-> None ])),
                          Override("R1", "replace", None),
                          Override("R3", "suppress", None),
                          Override("R3", "enhance", Boost(20)) >>), 3, None),
      CampaignRow("K6", "paused", 100, TRUE, << "P1" >>, None, 1, None) }

\* tables of at most n rows with pairwise different ids
Tables(catalog, n) ==
    UNION { { t \in [ 1..k -> catalog ] :
                \A i, j \in 1..k : i # j => t[i].id # t[j].id } : k \in 0..n }

Carts ==
    { << >>,
      << [ product_id |-> "P1",
           title |-> << "C","o","f","f","e","e"," ","M","u","g" >>,
           price |-> 30, quantity |-> 2 ] >> }

NoResult == [ kind |-> "none", offer |-> None ]

\* no second call
NoCall ==
    [ pc |-> "idle", cartItems |-> << >>, sessionId |-> "", user_id |-> "",
      timeContext |-> [ timeOnSite |-> None, activeTimeOnSite |-> None ],
      rulesRead |-> "none", campaignsRead |-> "none",
      activeRules |-> << >>, activeCampaigns |-> << >>, bestOffer |-> None,
      insertOutcome |-> "none", result |-> NoResult ]

\* no updateRulePriority call, no rule updated yet
NoUpdate ==
    [ pc |-> "idle", rule_id |-> "", user_id |-> "", priority_boost |-> 0,
      currentPriority |-> 0, count |-> 0, updated |-> {}, result |-> "none" ]

\* no generateDailyInsights run
NoRun ==
    [ pc |-> "idle", runs |-> 0, users |-> << >>, i |-> 0, attempted |-> << >>,
      users_processed |-> 0, errors |-> << >> ]

\* the orchestrator as its constructor leaves it
OrchestratorInit ==
    /\ isRunning = FALSE
    /\ scheduledJobs = << >>
    /\ timers = << >>
    /\ daily = NoRun

-----------------------------------------------------------------------------
(* evaluateUpsells, one action per step between two awaits or two calls *)

Init ==
    /\ upsell_rules \in Tables(RuleCatalog, MaxRules)
    /\ campaigns \in Tables(CampaignCatalog, MaxCampaigns)
    /\ upsell_evaluations = << >>
    /\ now = 2
    /\ cartItems \in Carts
    /\ sessionId = "s1"
    /\ user_id = "u1"
    /\ timeContext = [ timeOnSite |-> Some(45), activeTimeOnSite |-> None ]
    /\ pc = "idle"
    /\ calls = 0
    /\ rulesRead = "none"
    /\ campaignsRead = "none"
    /\ activeRules = << >>
    /\ activeCampaigns = << >>
    /\ matchingCampaigns = << >>
    /\ matchingRules = << >>
    /\ overriddenRules = << >>
    /\ bestOffer = None
    /\ insertAttempts = 0
    /\ insertOutcome = "none"
    /\ result = NoResult
    /\ prevResult = NoResult
    /\ other = NoCall
    /\ update = NoUpdate
    /\ OrchestratorInit

\* a caller invokes evaluateUpsells; both selects are issued
Call ==
    /\ pc \in { "idle", "done" }
    /\ calls < MaxCalls
    /\ calls' = calls + 1
    /\ pc' = "reading"
    /\ prevResult' = result
    /\ result' = NoResult
    /\ rulesRead' = "none"
    /\ campaignsRead' = "none"
    /\ activeRules' = << >>
    /\ activeCampaigns' = << >>
    /\ matchingCampaigns' = << >>
    /\ matchingRules' = << >>
    /\ overriddenRules' = << >>
    /\ bestOffer' = None
    /\ insertAttempts' = 0
    /\ insertOutcome' = "none"
    /\ UNCHANGED << other, update, orchVars >>
    /\ UNCHANGED << upsell_rules, campaigns, upsell_evaluations, now, cartItems,
                    sessionId, user_id, timeContext >>

\* Promise.all([getActiveRules, getActiveCampaigns]) settles
ReadsComplete ==
    /\ pc = "reading"
    /\ \E ro \in { "ok", "error" }, co \in { "ok", "error" } :
        /\ rulesRead' = ro
        /\ campaignsRead' = co
        /\ activeRules' = getActiveRules(upsell_rules, user_id, ro)
        /\ activeCampaigns' = getActiveCampaigns(campaigns, user_id, co)
    /\ pc' = "fetched"
    /\ UNCHANGED << other, update, orchVars >>
    /\ UNCHANGED << upsell_rules, campaigns, upsell_evaluations, now, cartItems,
                    sessionId, user_id, timeContext, calls, matchingCampaigns,
                    matchingRules, overriddenRules, bestOffer, insertAttempts,
                    insertOutcome, result, prevResult >>

\* evaluateCampaigns and evaluateRules
Match ==
    /\ pc = "fetched"
    /\ matchingCampaigns' = evaluateCampaigns(activeCampaigns, cartItems, timeContext)
    /\ matchingRules' = evaluateRules(activeRules, cartItems, timeContext)
    /\ pc' = "matched"
    /\ UNCHANGED << other, update, orchVars >>
    /\ UNCHANGED << upsell_rules, campaigns, upsell_evaluations, now, cartItems,
                    sessionId, user_id, timeContext, calls, rulesRead, campaignsRead,
                    activeRules, activeCampaigns, overriddenRules, bestOffer,
                    insertAttempts, insertOutcome, result, prevResult >>

\* Resolve applying the overrides of every active campaign
Resolve_activeCampaigns ==
    /\ pc = "matched"
    /\ LET r == applyRuleOverrides(matchingRules, activeCampaigns)
       IN  /\ overriddenRules' = r.overriddenRules
           /\ matchingRules' = r.rules
    /\ pc' = "resolved"
    /\ UNCHANGED << other, update, orchVars >>
    /\ UNCHANGED << upsell_rules, campaigns, upsell_evaluations, now, cartItems,
                    sessionId, user_id, timeContext, calls, rulesRead, campaignsRead,
                    activeRules, activeCampaigns, matchingCampaigns, bestOffer,
                    insertAttempts, insertOutcome, result, prevResult >>

\* applyRuleOverrides
Resolve ==
    /\ pc = "matched"
    /\ LET r == applyRuleOverrides(matchingRules, matchingCampaigns)
       IN  /\ overriddenRules' = r.overriddenRules
           /\ matchingRules' = r.rules
    /\ pc' = "resolved"
    /\ UNCHANGED << other, update, orchVars >>
    /\ UNCHANGED << upsell_rules, campaigns, upsell_evaluations, now, cartItems,
                    sessionId, user_id, timeContext, calls, rulesRead, campaignsRead,
                    activeRules, activeCampaigns, matchingCampaigns, bestOffer,
                    insertAttempts, insertOutcome, result, prevResult >>

\* Select handing selectBestUpsell the matched rules instead of the resolved ones
Select_matchingRules ==
    /\ pc = "resolved"
    /\ bestOffer' = selectBestUpsell(matchingCampaigns, matchingRules, cartItems)
    /\ insertAttempts' = insertAttempts + 1
    /\ pc' = "tracking"
    /\ UNCHANGED << other, update, orchVars >>
    /\ UNCHANGED << upsell_rules, campaigns, upsell_evaluations, now, cartItems,
                    sessionId, user_id, timeContext, calls, rulesRead, campaignsRead,
                    activeRules, activeCampaigns, matchingCampaigns, matchingRules,
                    overriddenRules, insertOutcome, result, prevResult >>

\* selectBestUpsell, then trackUpsellEvaluation issues its insert
Select ==
    /\ pc = "resolved"
    /\ bestOffer' = selectBestUpsell(matchingCampaigns, overriddenRules, cartItems)
    /\ insertAttempts' = insertAttempts + 1
    /\ pc' = "tracking"
    /\ UNCHANGED << other, update, orchVars >>
    /\ UNCHANGED << upsell_rules, campaigns, upsell_evaluations, now, cartItems,
                    sessionId, user_id, timeContext, calls, rulesRead, campaignsRead,
                    activeRules, activeCampaigns, matchingCampaigns, matchingRules,
                    overriddenRules, insertOutcome, result, prevResult >>

\* InsertComplete with the failure of the insert passed on to the caller
InsertComplete_rethrow ==
    /\ pc = "tracking"
    /\ \E outcome \in { "ok", "error", "throw" } :
        /\ insertOutcome' = outcome
        /\ upsell_evaluations' =
              trackUpsellEvaluation(upsell_evaluations,
                  evaluationRecord(sessionId, cartItems, bestOffer, user_id, now),
                  outcome)
        /\ result' = IF outcome = "ok"
                     THEN [ kind |-> "returned", offer |-> bestOffer ]
                     ELSE [ kind |-> "raised", offer |-> None ]
    /\ pc' = "done"
    /\ UNCHANGED << other, update, orchVars >>
    /\ UNCHANGED << upsell_rules, campaigns, now, cartItems, sessionId, user_id,
                    timeContext, calls, rulesRead, campaignsRead, activeRules,
                    activeCampaigns, matchingCampaigns, matchingRules,
                    overriddenRules, bestOffer, insertAttempts, prevResult >>

\* the insert settles (row stored, error result, or exception);
\* trackUpsellEvaluation returns and evaluateUpsells returns bestOffer
InsertComplete ==
    /\ pc = "tracking"
    /\ \E outcome \in { "ok", "error", "throw" } :
        /\ insertOutcome' = outcome
        /\ upsell_evaluations' =
              trackUpsellEvaluation(upsell_evaluations,
                  evaluationRecord(sessionId, cartItems, bestOffer, user_id, now),
                  outcome)
    /\ result' = [ kind |-> "returned", offer |-> bestOffer ]
    /\ pc' = "done"
    /\ UNCHANGED << other, update, orchVars >>
    /\ UNCHANGED << upsell_rules, campaigns, now, cartItems, sessionId, user_id,
                    timeContext, calls, rulesRead, campaignsRead, activeRules,
                    activeCampaigns, matchingCampaigns, matchingRules,
                    overriddenRules, bestOffer, insertAttempts, prevResult >>

Next ==
    \/ Call
    \/ ReadsComplete
    \/ Match
    \/ Resolve
    \/ Select
    \/ InsertComplete

Spec == Init /\ [][Next]_vars

\* The steps the engine takes by itself are taken once they are enabled, and
\* the selects are answered; nothing makes the store answer the insert.
FairSpec ==
    /\ Spec
    /\ WF_vars(ReadsComplete)
    /\ WF_vars(Match)
    /\ WF_vars(Resolve)
    /\ WF_vars(Select)

-----------------------------------------------------------------------------
(* Properties *)

Selected == pc \in { "tracking", "done" }
Resolved == pc \in { "resolved", "tracking", "done" }

RECURSIVE matchedOverrides(_)
\* the overrides of the matched campaigns, in order of application
matchedOverrides(cs) ==
    IF cs = << >> THEN << >>
    ELSE (IF Head(cs).rule_overrides = None THEN << >>
          ELSE Head(cs).rule_overrides[1]) \o matchedOverrides(Tail(cs))

RECURSIVE sumBoosts(_, _)
\* sum of the boosts of the enhance overrides in os that name rule id
sumBoosts(os, id) ==
    IF os = << >> THEN 0
    ELSE (IF Head(os).rule_id = id /\ Head(os).override_type = "enhance"
          THEN (IF Head(os).enhanced_settings = None
                   \/ Head(os).enhanced_settings[1].priority_boost = None
                THEN 0
                ELSE Head(os).enhanced_settings[1].priority_boost[1])
          ELSE 0) + sumBoosts(Tail(os), id)

Suppressed(id) ==
    \E k \in DOMAIN matchedOverrides(matchingCampaigns) :
        /\ matchedOverrides(matchingCampaigns)[k].rule_id = id
        /\ matchedOverrides(matchingCampaigns)[k].override_type = "suppress"

\* C1: whenever a matched campaign has override_existing_rules = true, the
\* offer selectBestUpsell returns is a campaign, never a rule.
C1_OverrideCampaignBeatsRules ==
    (Selected /\ \E i \in DOMAIN matchingCampaigns :
                    matchingCampaigns[i].override_existing_rules)
    => (bestOffer # None /\ bestOffer[1].type = "campaign")

\* C2: a matched rule for which a matched campaign carries a suppress override
\* is absent from the list applyRuleOverrides returns and is never the offer;
\* with no candidate left the result is null.
C2_SuppressedRuleNeverOffered ==
    Resolved =>
        /\ \A i \in DOMAIN matchingRules :
              Suppressed(matchingRules[i].id) =>
                 /\ \A j \in DOMAIN overriddenRules :
                        overriddenRules[j].id # matchingRules[i].id
                 /\ ~(bestOffer # None /\ bestOffer[1].type = "rule"
                      /\ bestOffer[1].id = matchingRules[i].id)
                 /\ (result.kind = "returned" /\ result.offer # None)
                        => ~(result.offer[1].type = "rule"
                             /\ result.offer[1].id = matchingRules[i].id)
        /\ (Selected /\ matchingCampaigns = << >> /\ overriddenRules = << >>)
              => bestOffer = None

\* a rule of priority 100 was matched and suppressed, and the call has returned
C2_Witness ==
    /\ pc = "done"
    /\ result.kind = "returned"
    /\ \E i \in DOMAIN matchingRules :
          /\ matchingRules[i].priority = 100
          /\ Suppressed(matchingRules[i].id)

\* C3: when the read of the active rules or of the active campaigns fails,
\* evaluateUpsells raises and returns neither an offer nor null.
C3_ReadFailureRaises ==
    (pc = "done" /\ (rulesRead = "error" \/ campaignsRead = "error"))
    => result.kind = "raised"

\* C4: when the evaluation-record insert fails, evaluateUpsells returns exactly
\* the offer selectBestUpsell chose, does not raise, and the insert was issued
\* once.
C4_InsertFailureKeepsOffer ==
    (pc = "done" /\ insertOutcome \in { "error", "throw" })
    => /\ result = [ kind |-> "returned",
                     offer |-> selectBestUpsell(matchingCampaigns, overriddenRules,
                                                cartItems) ]
       /\ insertAttempts = 1
       /\ Len(upsell_evaluations) < calls

\* the insert failed and an offer was returned all the same
C4_Witness ==
    /\ pc = "done"
    /\ insertOutcome \in { "error", "throw" }
    /\ result.kind = "returned"
    /\ result.offer # None

\* C5: once selection has produced its offer, evaluateUpsells eventually
\* returns it, even if the evaluation-record write never completes.
C5_ReturnsWithoutWaitingForWrite ==
    (pc = "tracking") ~> (pc = "done" /\ result.kind = "returned")

\* C6: two successive evaluateUpsells calls with the same cart, time context
\* and stored rules and campaigns return the same offer.
C6_SecondCallSameOffer ==
    (pc = "done" /\ calls >= 2) => result = prevResult

\* C7: evaluateCampaigns keeps a campaign iff it is active, now lies in
\* [start_date, end_date] (no end_date: unbounded) and one of its
\* trigger_products is the product_id of a cart item.
C7_CampaignMatchesIffActiveInWindowTriggered ==
    Resolved =>
        \A i \in DOMAIN activeCampaigns :
            (\E j \in DOMAIN matchingCampaigns :
                 matchingCampaigns[j] = activeCampaigns[i])
            <=> /\ activeCampaigns[i].status = "active"
                /\ activeCampaigns[i].start_date <= now
                /\ (activeCampaigns[i].end_date = None
                    \/ now <= activeCampaigns[i].end_date[1])
                /\ \E t \in DOMAIN activeCampaigns[i].trigger_products :
                       \E k \in DOMAIN cartItems :
                           cartItems[k].product_id
                               = activeCampaigns[i].trigger_products[t]

\* C8: a matched rule that is enhanced and not suppressed stays in the
\* candidate list with priority = its priority + the boosts of its enhance
\* overrides (0 for an absent boost), without clamping.
C8_EnhanceAddsBoostUnclamped ==
    Resolved =>
        \A i \in DOMAIN matchingRules :
            ~Suppressed(matchingRules[i].id) =>
                \E j \in DOMAIN overriddenRules :
                    /\ overriddenRules[j].id = matchingRules[i].id
                    /\ overriddenRules[j].priority =
                          matchingRules[i].priority
                          + sumBoosts(matchedOverrides(matchingCampaigns),
                                      matchingRules[i].id)

\* an enhanced rule is a candidate with a priority above 100
C8_Witness ==
    /\ Resolved
    /\ \E j \in DOMAIN overriddenRules : overriddenRules[j].priority > 100

\* C9: applyRuleOverrides leaves the list it was given, and the rule objects
\* in it, as they were: after enhance and suppress overrides the argument still
\* is the list of matched rules with their stored priorities.
C9_OverridesLeaveInputsUnchanged ==
    Resolved =>
        /\ matchingRules = evaluateRules(activeRules, cartItems, timeContext)
        /\ \A i \in DOMAIN matchingRules :
              \E k \in DOMAIN upsell_rules :
                  /\ upsell_rules[k].id = matchingRules[i].id
                  /\ upsell_rules[k].priority = matchingRules[i].priority

\* overrides have boosted one matched rule and removed another
C9_Witness ==
    /\ Resolved
    /\ Len(overriddenRules) < Len(matchingRules)
    /\ \E i \in DOMAIN matchingRules, j \in DOMAIN overriddenRules :
          /\ overriddenRules[j].id = matchingRules[i].id
          /\ overriddenRules[j].priority # matchingRules[i].priority

\* C10: selectBestUpsell returns null iff there is neither a matched campaign
\* nor a resolved rule; null is handed to the caller as a normal return value.
C10_NullIffNoCandidate ==
    Selected =>
        /\ (bestOffer = None)
              <=> (matchingCampaigns = << >> /\ overriddenRules = << >>)
        /\ (pc = "done" /\ bestOffer = None)
              => result = [ kind |-> "returned", offer |-> None ]

\* a call with no candidate has returned null
C10_Witness ==
    /\ pc = "done"
    /\ matchingCampaigns = << >>
    /\ overriddenRules = << >>
    /\ result = [ kind |-> "returned", offer |-> None ]

-----------------------------------------------------------------------------
(* Override resolution and offer selection on their own: the call stands     *)
(* after evaluateCampaigns and evaluateRules, with the matched lists drawn   *)
(* from the sets below.                                                      *)

RuleIdAt == << "R1", "R2", "R3", "R4" >>
CampaignIdAt == << "K1", "K2", "K3", "K4" >>

\* a matched rule as getActiveRules hands it over
SelectRule(id, priority, revenue) ==
    [ id |-> id, user_id |-> "u1", name |-> id, status |-> "active",
      is_active |-> TRUE, priority |-> priority, trigger_type |-> "cart_value",
      trigger_conditions |->
          [ NoConditions EXCEPT !.cart_value_operator = Some("greater_than"),
                                !.cart_value_min = Some(50) ],
      target_products |-> << "P9" >>, display_type |-> Some("cart"),
      revenue |-> revenue ]

\* a matched campaign as getActiveCampaigns hands it over
SelectCampaign(id, priority, override, overrides) ==
    [ id |-> id, user_id |-> "u1", name |-> id, status |-> "active",
      campaign_priority |-> priority, override_existing_rules |-> override,
      trigger_products |-> << "P1" >>, upsell_products |-> << "P8" >>,
      rule_overrides |-> overrides, start_date |-> 1, end_date |-> None,
      revenue |-> 0 ]

SelectOverrideLists ==
    { None,
      Some(<< Override("R1", "enhance", Boost(20)) >>),
      Some(<< Override("R1", "suppress", None),
              Override("R1", "enhance", Boost(20)) >>),
      Some(<< Override("R1", "replace", None) >>),
      Some(<< Override("R1", "enhance", Boost(20)),
              Override("R1", "enhance", Boost(5)),
              Override("R2", "suppress", None),
              Override("R2", "enhance", Boost(20)) >>) }

SelectRuleLists(n) ==
    UNION { { [ i \in 1..k |-> SelectRule(RuleIdAt[i], f[i].p, f[i].rev) ] :
                f \in [ 1..k -> [ p : { 40, 100 }, rev : { 0, 50 } ] ] } :
            k \in 0..n }

SelectCampaignLists(n) ==
    UNION { { [ i \in 1..k |->
                  SelectCampaign(CampaignIdAt[i], f[i].p, f[i].ov, f[i].os) ] :
                f \in [ 1..k -> [ p : { 10, 40 }, ov : BOOLEAN,
                                  os : SelectOverrideLists ] ] } :
            k \in 0..n }

InitSelect ==
    /\ upsell_rules = << >>
    /\ campaigns = << >>
    /\ upsell_evaluations = << >>
    /\ now = 2
    /\ cartItems = << [ product_id |-> "P1",
                        title |-> << "C","o","f","f","e","e"," ","M","u","g" >>,
                        price |-> 30, quantity |-> 2 ] >>
    /\ sessionId = "s1"
    /\ user_id = "u1"
    /\ timeContext = [ timeOnSite |-> Some(45), activeTimeOnSite |-> None ]
    /\ pc = "matched"
    /\ calls = 1
    /\ rulesRead = "ok"
    /\ campaignsRead = "ok"
    /\ matchingRules \in SelectRuleLists(MaxRules)
    /\ matchingCampaigns \in SelectCampaignLists(MaxCampaigns)
    /\ activeRules = matchingRules
    /\ activeCampaigns = matchingCampaigns
    /\ overriddenRules = << >>
    /\ bestOffer = None
    /\ insertAttempts = 0
    /\ insertOutcome = "none"
    /\ result = NoResult
    /\ prevResult = NoResult
    /\ other = NoCall
    /\ update = NoUpdate
    /\ OrchestratorInit

NextSelect ==
    \/ Resolve
    \/ Select

SelectSpec == InitSelect /\ [][NextSelect]_vars

-----------------------------------------------------------------------------
(* Properties of override resolution and offer selection *)

\* the candidates selectBestUpsell ranks, with the priority it ranks them by
Candidates ==
    { [ type |-> "campaign", id |-> matchingCampaigns[i].id,
        priority |-> matchingCampaigns[i].campaign_priority,
        revenue |-> matchingCampaigns[i].revenue ] :
      i \in DOMAIN matchingCampaigns }
    \cup
    { [ type |-> "rule", id |-> overriddenRules[j].id,
        priority |-> overriddenRules[j].priority,
        revenue |-> overriddenRules[j].revenue ] :
      j \in DOMAIN overriddenRules }

IsWinner(c) ==
    bestOffer # None /\ bestOffer[1].type = c.type /\ bestOffer[1].id = c.id

IsTop(c) == \A d \in Candidates : c.priority >= d.priority

NoOverrideCampaign ==
    \A i \in DOMAIN matchingCampaigns : ~matchingCampaigns[i].override_existing_rules

\* a rule and a campaign share the top priority and no revenue separates the
\* candidates of that priority
TiedAtTop ==
    /\ \E r \in Candidates, c \in Candidates :
          r.type = "rule" /\ c.type = "campaign" /\ IsTop(r) /\ IsTop(c)
    /\ \A c \in Candidates, d \in Candidates :
          (IsTop(c) /\ IsTop(d)) => c.revenue = d.revenue

\* C11: with no matched campaign that has override_existing_rules, the
\* candidate behind the returned offer has a priority at least that of every
\* other candidate.
C11_WinnerHasTopPriority ==
    (Selected /\ NoOverrideCampaign /\ Candidates # {})
    => \E w \in Candidates : IsWinner(w) /\ IsTop(w)

\* candidates of different priorities, none of them an overriding campaign
C11_Witness ==
    /\ Selected
    /\ NoOverrideCampaign
    /\ bestOffer # None
    /\ \E c \in Candidates, d \in Candidates :
          c.type = "rule" /\ d.type = "campaign" /\ c.priority # d.priority

\* C12 as stated: a rule and a campaign without override tie at the top and
\* the rule is the returned offer.
C12_TieGoesToRule ==
    (Selected /\ NoOverrideCampaign /\ TiedAtTop)
    => (bestOffer # None /\ bestOffer[1].type = "rule")

\* C12 amended: a rule and a campaign without override tie at the top; the
\* earlier-inserted candidate wins and campaigns are inserted before rules,
\* so the first matched campaign of that priority is the returned offer.
C12_TieGoesToFirstCampaign ==
    (Selected /\ NoOverrideCampaign /\ TiedAtTop)
    => /\ bestOffer # None
       /\ bestOffer[1].type = "campaign"
       /\ \E i \in DOMAIN matchingCampaigns :
             /\ bestOffer[1].id = matchingCampaigns[i].id
             /\ \A d \in Candidates :
                    matchingCampaigns[i].campaign_priority >= d.priority
             /\ \A j \in 1..(i - 1) :
                    matchingCampaigns[j].campaign_priority
                        < matchingCampaigns[i].campaign_priority

\* a rule and a campaign tie at the top and an offer was selected
C12_Witness ==
    /\ Selected
    /\ NoOverrideCampaign
    /\ TiedAtTop
    /\ bestOffer # None

\* C13: of candidates with equal priority that differ in estimated revenue,
\* the one with the higher revenue is the returned offer.
C13_HigherRevenueWinsTie ==
    (Selected /\ bestOffer # None)
    => \A w \in Candidates, c \in Candidates :
          (IsWinner(w) /\ c.priority = w.priority) => c.revenue <= w.revenue

\* C14: when several matched campaigns have override_existing_rules, the one
\* of them with the highest campaign_priority is the returned offer.
C14_TopOverrideCampaignWins ==
    (Selected /\ Cardinality({ i \in DOMAIN matchingCampaigns :
                                 matchingCampaigns[i].override_existing_rules }) >= 2)
    => /\ bestOffer # None
       /\ bestOffer[1].type = "campaign"
       /\ \E i \in DOMAIN matchingCampaigns :
             /\ matchingCampaigns[i].override_existing_rules
             /\ bestOffer[1].id = matchingCampaigns[i].id
             /\ \A j \in DOMAIN matchingCampaigns :
                    matchingCampaigns[j].override_existing_rules
                    => matchingCampaigns[i].campaign_priority
                           >= matchingCampaigns[j].campaign_priority

EnhanceCount(id) ==
    Cardinality({ k \in DOMAIN matchedOverrides(matchingCampaigns) :
        /\ matchedOverrides(matchingCampaigns)[k].rule_id = id
        /\ matchedOverrides(matchingCampaigns)[k].override_type = "enhance" })

\* an enhance of rule id comes after a suppress of it, in application order
EnhancedAfterSuppress(id) ==
    \E k, l \in DOMAIN matchedOverrides(matchingCampaigns) :
        /\ k < l
        /\ matchedOverrides(matchingCampaigns)[k].rule_id = id
        /\ matchedOverrides(matchingCampaigns)[k].override_type = "suppress"
        /\ matchedOverrides(matchingCampaigns)[l].rule_id = id
        /\ matchedOverrides(matchingCampaigns)[l].override_type = "enhance"

\* C15: overrides apply in matched-campaign order, then in listed order: the
\* boosts of several enhance overrides on one rule add up, and an enhance
\* that follows a suppress of the same rule leaves the rule absent.
C15_BoostsAccumulateSuppressIsFinal ==
    Resolved =>
        \A i \in DOMAIN matchingRules :
            /\ (EnhanceCount(matchingRules[i].id) >= 2
                /\ ~Suppressed(matchingRules[i].id))
               => \E j \in DOMAIN overriddenRules :
                     /\ overriddenRules[j].id = matchingRules[i].id
                     /\ overriddenRules[j].priority =
                           matchingRules[i].priority
                           + sumBoosts(matchedOverrides(matchingCampaigns),
                                       matchingRules[i].id)
            /\ EnhancedAfterSuppress(matchingRules[i].id)
               => \A j \in DOMAIN overriddenRules :
                     overriddenRules[j].id # matchingRules[i].id

\* one matched rule was enhanced twice and carries both boosts, another was
\* suppressed and then named by an enhance
C15_Witness ==
    /\ Resolved
    /\ \E i \in DOMAIN matchingRules :
          /\ EnhanceCount(matchingRules[i].id) >= 2
          /\ ~Suppressed(matchingRules[i].id)
          /\ \E j \in DOMAIN overriddenRules :
                /\ overriddenRules[j].id = matchingRules[i].id
                /\ overriddenRules[j].priority >= matchingRules[i].priority + 25
    /\ \E i \in DOMAIN matchingRules : EnhancedAfterSuppress(matchingRules[i].id)

\* the matched campaigns that carry a replace override for rule id
Replacers(id) ==
    { i \in DOMAIN matchingCampaigns :
        /\ matchingCampaigns[i].rule_overrides # None
        /\ \E k \in DOMAIN matchingCampaigns[i].rule_overrides[1] :
              /\ matchingCampaigns[i].rule_overrides[1][k].rule_id = id
              /\ matchingCampaigns[i].rule_overrides[1][k].override_type = "replace" }

\* C16: a replaced rule stays a candidate with its priority unchanged, and
\* when it wins the offer carries the replacing campaign's content.
C16_ReplacedRuleCarriesCampaignContent ==
    Resolved =>
        \A i \in DOMAIN matchingRules :
            (Replacers(matchingRules[i].id) # {} /\ ~Suppressed(matchingRules[i].id))
            => /\ \E j \in DOMAIN overriddenRules :
                     /\ overriddenRules[j].id = matchingRules[i].id
                     /\ overriddenRules[j].priority =
                           matchingRules[i].priority
                           + sumBoosts(matchedOverrides(matchingCampaigns),
                                       matchingRules[i].id)
               /\ (Selected /\ bestOffer # None /\ bestOffer[1].type = "rule"
                   /\ bestOffer[1].id = matchingRules[i].id)
                  => \E c \in Replacers(matchingRules[i].id) :
                         bestOffer[1].title = matchingCampaigns[c].name

-----------------------------------------------------------------------------
(* Rule matching on its own: the call stands after the reads, with one       *)
(* active rule, the cart and the time context drawn from the sets below.     *)

CartValueConditions ==
    { [ NoConditions EXCEPT !.cart_value_operator = op, !.cart_value = cv,
                            !.cart_value_min = mn, !.cart_value_max = mx ] :
        op \in { None, Some("greater_than"), Some("less_than"), Some("equals"),
                 Some("between"), Some("at_least") },
        cv \in { None, Some(0), Some(60), Some(-5) },
        mn \in { None, Some(30) },
        mx \in { None, Some(100) } }

TimeConditions ==
    { [ NoConditions EXCEPT !.time_on_site_min = mn, !.time_on_site_max = mx,
                            !.active_time_on_site_min = amn ] :
        mn \in { None, Some(0), Some(30) },
        mx \in { None, Some(0), Some(40) },
        amn \in { None, Some(0), Some(20) } }

CategoryConditions ==
    { [ NoConditions EXCEPT !.category = cat, !.category_operator = op ] :
        cat \in { None, Some(""), Some("coffee"), Some("electronics"),
                  Some("kitchenware"), Some("food"), Some("general") },
        op \in { None, Some("contains"), Some("equals"), Some("not_contains"),
                 Some("starts_with") } }

\* an active rule as getActiveRules hands it over
CondRule(type, conditions) ==
    [ SelectRule("R1", 50, 0) EXCEPT !.trigger_type = type,
                                     !.trigger_conditions = conditions ]

CondRules ==
    { CondRule("cart_value", c) : c \in CartValueConditions }
    \cup { CondRule("time_based", c) : c \in TimeConditions }
    \cup { CondRule("category", c) : c \in CategoryConditions }
    \cup { CondRule("product_based", NoConditions) }

MugItem ==
    [ product_id |-> "P1",
      title |-> << "C","o","f","f","e","e"," ","M","u","g" >>,
      price |-> 30, quantity |-> 2 ]

TeaItem ==
    [ product_id |-> "P2", title |-> << "T","e","a" >>,
      price |-> 10, quantity |-> 1 ]

GrinderItem ==
    [ product_id |-> "P3",
      title |-> << "W","i","r","e","l","e","s","s"," ","G","r","i","n","d","e","r" >>,
      price |-> 40, quantity |-> 1 ]

HoneyItem ==
    [ product_id |-> "P4",
      title |-> << "O","r","g","a","n","i","c"," ","H","o","n","e","y" >>,
      price |-> 5, quantity |-> 3 ]

ScaleItem ==
    [ product_id |-> "P5",
      title |-> << "K","I","T","C","H","E","N"," ","S","c","a","l","e" >>,
      price |-> 20, quantity |-> 1 ]

CondCarts ==
    { << >>, << MugItem >>, << TeaItem >>, << MugItem, TeaItem >>,
      << GrinderItem >>, << HoneyItem >>, << ScaleItem >> }

CondTimeContexts ==
    [ timeOnSite : { None, Some(30), Some(45) },
      activeTimeOnSite : { None, Some(10), Some(30) } ]

InitCond ==
    /\ upsell_rules = << >>
    /\ campaigns = << >>
    /\ upsell_evaluations = << >>
    /\ now = 2
    /\ cartItems \in CondCarts
    /\ sessionId = "s1"
    /\ user_id = "u1"
    /\ timeContext \in CondTimeContexts
    /\ pc = "fetched"
    /\ calls = 1
    /\ rulesRead = "ok"
    /\ campaignsRead = "ok"
    /\ activeRules \in { << r >> : r \in CondRules }
    /\ activeCampaigns = << >>
    /\ matchingCampaigns = << >>
    /\ matchingRules = << >>
    /\ overriddenRules = << >>
    /\ bestOffer = None
    /\ insertAttempts = 0
    /\ insertOutcome = "none"
    /\ result = NoResult
    /\ prevResult = NoResult
    /\ other = NoCall
    /\ update = NoUpdate
    /\ OrchestratorInit

NextCond == Match

CondSpec == InitCond /\ [][NextCond]_vars

-----------------------------------------------------------------------------
(* Properties of the condition evaluators *)

Matched == pc = "matched"

\* evaluateRules kept the i-th active rule
Kept(i) == \E j \in DOMAIN matchingRules : matchingRules[j] = activeRules[i]

RECURSIVE CartTotal(_)
\* sum of price times quantity over the items
CartTotal(items) ==
    IF items = << >> THEN 0
    ELSE Head(items).price * Head(items).quantity + CartTotal(Tail(items))

Above(total, threshold) == threshold # None /\ total > threshold[1]
Below(total, threshold) == threshold # None /\ total < threshold[1]

\* C17 as stated: greater_than and less_than compare the cart total with
\* cart_value when it is present (0 included), else with cart_value_min (resp.
\* cart_value_max).
C17_ThresholdZeroCountsAsPresent ==
    Matched =>
        \A i \in DOMAIN activeRules :
            LET c == activeRules[i].trigger_conditions
                total == CartTotal(cartItems)
            IN  activeRules[i].trigger_type = "cart_value" =>
                  /\ c.cart_value_operator = Some("greater_than") =>
                       (Kept(i) <=> Above(total, IF c.cart_value # None
                                                 THEN c.cart_value
                                                 ELSE c.cart_value_min))
                  /\ c.cart_value_operator = Some("less_than") =>
                       (Kept(i) <=> Below(total, IF c.cart_value # None
                                                 THEN c.cart_value
                                                 ELSE c.cart_value_max))

\* C17 amended: greater_than and less_than compare the cart total with
\* cart_value when it is present and not 0, else with cart_value_min (resp.
\* cart_value_max); a cart_value of 0 counts as absent.
C17_ThresholdZeroCountsAsAbsent ==
    Matched =>
        \A i \in DOMAIN activeRules :
            LET c == activeRules[i].trigger_conditions
                total == CartTotal(cartItems)
                present == c.cart_value # None /\ c.cart_value[1] # 0
            IN  activeRules[i].trigger_type = "cart_value" =>
                  /\ c.cart_value_operator = Some("greater_than") =>
                       (Kept(i) <=> Above(total, IF present THEN c.cart_value
                                                 ELSE c.cart_value_min))
                  /\ c.cart_value_operator = Some("less_than") =>
                       (Kept(i) <=> Below(total, IF present THEN c.cart_value
                                                 ELSE c.cart_value_max))

\* a greater_than rule with cart_value 0 and cart_value_min 30 was evaluated
\* on a cart of total 10 and not kept
C17_Witness ==
    /\ Matched
    /\ activeRules[1].trigger_type = "cart_value"
    /\ activeRules[1].trigger_conditions.cart_value_operator = Some("greater_than")
    /\ activeRules[1].trigger_conditions.cart_value = Some(0)
    /\ activeRules[1].trigger_conditions.cart_value_min = Some(30)
    /\ CartTotal(cartItems) = 10
    /\ ~Kept(1)

PositiveMin(c) == c.cart_value_min # None /\ c.cart_value_min[1] > 0

\* C18 as stated: on the empty cart no cart_value rule with cart_value_min > 0
\* is matched, whatever its operator and other fields.
C18_EmptyCartNeverMatchesAnyOperator ==
    (Matched /\ cartItems = << >>) =>
        \A i \in DOMAIN activeRules :
            (activeRules[i].trigger_type = "cart_value"
             /\ PositiveMin(activeRules[i].trigger_conditions))
            => ~Kept(i)

\* C18 amended: on the empty cart no cart_value rule with cart_value_min > 0
\* is matched when its operator is between, or is greater_than with
\* cart_value absent or not negative.
C18_EmptyCartNeverMatchesLowerBound ==
    (Matched /\ cartItems = << >>) =>
        \A i \in DOMAIN activeRules :
            LET c == activeRules[i].trigger_conditions
            IN  (/\ activeRules[i].trigger_type = "cart_value"
                 /\ PositiveMin(c)
                 /\ \/ c.cart_value_operator = Some("between")
                    \/ /\ c.cart_value_operator = Some("greater_than")
                       /\ (c.cart_value = None \/ c.cart_value[1] >= 0))
                => ~Kept(i)

\* a between rule with cart_value_min 30 and cart_value_max 100 was evaluated
\* on the empty cart
C18_Witness ==
    /\ Matched
    /\ cartItems = << >>
    /\ activeRules[1].trigger_type = "cart_value"
    /\ activeRules[1].trigger_conditions.cart_value_operator = Some("between")
    /\ activeRules[1].trigger_conditions.cart_value_min = Some(30)
    /\ activeRules[1].trigger_conditions.cart_value_max = Some(100)
    /\ ~Kept(1)

\* the caller's time, 0 when not supplied
SuppliedTime(t) == IF t = None THEN 0 ELSE t[1]

\* C19 as stated: a time_based rule matches iff every threshold present in its
\* conditions holds, a threshold of value 0 included.
C19_PresentThresholdsEnforced ==
    Matched =>
        \A i \in DOMAIN activeRules :
            LET c == activeRules[i].trigger_conditions
                tos == SuppliedTime(timeContext.timeOnSite)
                atos == SuppliedTime(timeContext.activeTimeOnSite)
            IN  activeRules[i].trigger_type = "time_based" =>
                  (Kept(i) <=>
                     /\ c.time_on_site_min # None => tos >= c.time_on_site_min[1]
                     /\ c.time_on_site_max # None => tos <= c.time_on_site_max[1]
                     /\ c.active_time_on_site_min # None
                            => atos >= c.active_time_on_site_min[1])

Enforced(threshold) == threshold # None /\ threshold[1] # 0

\* C19 amended: a time_based rule matches iff every threshold that is present
\* and not 0 holds; a threshold that is absent or 0 is satisfied, and a rule
\* with no such threshold matches.
C19_NonZeroThresholdsEnforced ==
    Matched =>
        \A i \in DOMAIN activeRules :
            LET c == activeRules[i].trigger_conditions
                tos == SuppliedTime(timeContext.timeOnSite)
                atos == SuppliedTime(timeContext.activeTimeOnSite)
            IN  activeRules[i].trigger_type = "time_based" =>
                  (Kept(i) <=>
                     /\ Enforced(c.time_on_site_min) => tos >= c.time_on_site_min[1]
                     /\ Enforced(c.time_on_site_max) => tos <= c.time_on_site_max[1]
                     /\ Enforced(c.active_time_on_site_min)
                            => atos >= c.active_time_on_site_min[1])

\* a rule with time_on_site_max 0 was kept for a visitor 45 seconds on site
C19_Witness ==
    /\ Matched
    /\ activeRules[1].trigger_type = "time_based"
    /\ activeRules[1].trigger_conditions.time_on_site_max = Some(0)
    /\ timeContext.timeOnSite = Some(45)
    /\ Kept(1)

\* C20: for a category rule with a category given, contains holds iff some
\* cart item's extracted category equals it, equals iff every item's does,
\* not_contains iff no item's does; a rule with no category never matches.
C20_CategoryOperators ==
    Matched =>
        \A i \in DOMAIN activeRules :
            LET c == activeRules[i].trigger_conditions
                given == c.category # None /\ c.category # Some("")
                is(k) == extractCategory(cartItems[k].title) = c.category[1]
            IN  activeRules[i].trigger_type = "category" =>
                  /\ ~given => ~Kept(i)
                  /\ (given /\ c.category_operator = Some("contains"))
                        => (Kept(i) <=> \E k \in DOMAIN cartItems : is(k))
                  /\ (given /\ c.category_operator = Some("equals"))
                        => (Kept(i) <=> \A k \in DOMAIN cartItems : is(k))
                  /\ (given /\ c.category_operator = Some("not_contains"))
                        => (Kept(i) <=> ~(\E k \in DOMAIN cartItems : is(k)))

\* an equals rule for coffee was evaluated on a cart holding a coffee item and
\* an item of another category, and not kept
C20_Witness ==
    /\ Matched
    /\ Len(cartItems) = 2
    /\ activeRules[1].trigger_type = "category"
    /\ activeRules[1].trigger_conditions.category = Some("coffee")
    /\ activeRules[1].trigger_conditions.category_operator = Some("equals")
    /\ \E k \in DOMAIN cartItems : extractCategory(cartItems[k].title) = "coffee"
    /\ ~Kept(1)

\* the keyword occurs in the text as a run of consecutive characters
Occurs(kw, text) ==
    \E k \in 0..(Len(text) - Len(kw)) : SubSeq(text, k + 1, k + Len(kw)) = kw

RECURSIVE TableCategory(_, _)
\* the category of the first table entry from index i on with a keyword
\* occurring in the lower-cased title, 'general' past the end of the table
TableCategory(title, i) ==
    IF i > Len(categories) THEN "general"
    ELSE IF \E k \in DOMAIN categories[i].keywords :
                Occurs(categories[i].keywords[k], toLowerCase(title))
         THEN categories[i].category
         ELSE TableCategory(title, i + 1)

\* C21: a category rule {category, contains} is matched iff some cart item's
\* title maps to that category, the map being the first table category, in
\* table order, with a keyword occurring in the lower-cased title, and
\* 'general' when none does; "Coffee Mug" maps to coffee.
C21_FirstTableCategoryOfLowerCasedTitle ==
    Matched =>
        /\ \A k \in DOMAIN cartItems :
              extractCategory(cartItems[k].title) = TableCategory(cartItems[k].title, 1)
        /\ \A i \in DOMAIN activeRules :
              LET c == activeRules[i].trigger_conditions
              IN  (/\ activeRules[i].trigger_type = "category"
                   /\ c.category # None /\ c.category # Some("")
                   /\ c.category_operator = Some("contains"))
                  => (Kept(i) <=> \E k \in DOMAIN cartItems :
                                     TableCategory(cartItems[k].title, 1) = c.category[1])
        /\ TableCategory(MugItem.title, 1) = "coffee"

\* the rule {category: coffee, contains} was kept for the cart holding the
\* item titled "Coffee Mug"
C21_Witness ==
    /\ Matched
    /\ cartItems = << MugItem >>
    /\ activeRules[1].trigger_type = "category"
    /\ activeRules[1].trigger_conditions.category = Some("coffee")
    /\ activeRules[1].trigger_conditions.category_operator = Some("contains")
    /\ Kept(1)

KnownTriggerTypes == { "category", "cart_value", "time_based" }
KnownCategoryOperators == { "contains", "equals", "not_contains" }
KnownCartValueOperators == { "greater_than", "less_than", "equals", "between" }

\* the rule names a trigger type or an operator that has no evaluator
Unknown(rule) ==
    LET c == rule.trigger_conditions
    IN  \/ rule.trigger_type \notin KnownTriggerTypes
        \/ /\ rule.trigger_type = "category"
           /\ c.category_operator # None
           /\ c.category_operator[1] \notin KnownCategoryOperators
        \/ /\ rule.trigger_type = "cart_value"
           /\ \/ c.cart_value_operator = None
              \/ c.cart_value_operator[1] \notin KnownCartValueOperators

\* C22: a rule whose trigger_type is not category, cart_value or time_based,
\* or a category or cart_value rule whose operator is not a known one, is
\* never kept by evaluateRules, and matching it raises nothing.
C22_UnknownTypeOrOperatorNeverMatches ==
    Matched =>
        /\ result.kind # "raised"
        /\ \A i \in DOMAIN activeRules : Unknown(activeRules[i]) => ~Kept(i)

\* a product_based rule went through evaluateRules and was dropped
C22_Witness ==
    /\ Matched
    /\ activeRules[1].trigger_type = "product_based"
    /\ matchingRules = << >>

-----------------------------------------------------------------------------
(* Evaluation of a cart with incomplete items: the call stands after the     *)
(* reads with a cart_value rule, alone or followed by a category rule, and   *)
(* runs to its return.                                                       *)

MugNoPrice ==
    [ product_id |-> "P1",
      title |-> << "C","o","f","f","e","e"," ","M","u","g" >>,
      quantity |-> 2 ]

MugNoQuantity ==
    [ product_id |-> "P1",
      title |-> << "C","o","f","f","e","e"," ","M","u","g" >>,
      price |-> 30 ]

TeaBare == [ product_id |-> "P2", title |-> << "T","e","a" >> ]

PartialCarts ==
    { << MugNoPrice >>, << MugNoQuantity >>, << MugItem, TeaBare >>,
      << TeaBare, MugItem >>, << GrinderItem, MugNoPrice >> }

CoffeeRule ==
    [ SelectRule("R2", 40, 0) EXCEPT
        !.trigger_type = "category",
        !.trigger_conditions =
            [ NoConditions EXCEPT !.category = Some("coffee"),
                                  !.category_operator = Some("contains") ] ]

PartialRuleLists ==
    { << CondRule("cart_value", c) >> : c \in CartValueConditions }
    \cup { << CondRule("cart_value", c), CoffeeRule >> : c \in CartValueConditions }

InitPartial ==
    /\ upsell_rules = << >>
    /\ campaigns = << >>
    /\ upsell_evaluations = << >>
    /\ now = 2
    /\ cartItems \in PartialCarts
    /\ sessionId = "s1"
    /\ user_id = "u1"
    /\ timeContext = [ timeOnSite |-> Some(45), activeTimeOnSite |-> None ]
    /\ pc = "fetched"
    /\ calls = 1
    /\ rulesRead = "ok"
    /\ campaignsRead = "ok"
    /\ activeRules \in PartialRuleLists
    /\ activeCampaigns = << >>
    /\ matchingCampaigns = << >>
    /\ matchingRules = << >>
    /\ overriddenRules = << >>
    /\ bestOffer = None
    /\ insertAttempts = 0
    /\ insertOutcome = "none"
    /\ result = NoResult
    /\ prevResult = NoResult
    /\ other = NoCall
    /\ update = NoUpdate
    /\ OrchestratorInit

NextPartial ==
    \/ Match
    \/ Resolve
    \/ Select
    \/ InsertComplete

PartialSpec == InitPartial /\ [][NextPartial]_vars

\* some cart item has no price or no quantity
Incomplete(items) ==
    \E k \in DOMAIN items :
        "price" \notin DOMAIN items[k] \/ "quantity" \notin DOMAIN items[k]

\* C23: when a cart item has no price or no quantity, nothing is raised, no
\* cart_value rule is among the matched rules, and the call returns an offer
\* or null.
C23_IncompleteCartNoCartValueMatch ==
    Incomplete(cartItems) =>
        /\ result.kind # "raised"
        /\ pc # "fetched" =>
              \A j \in DOMAIN matchingRules :
                  matchingRules[j].trigger_type # "cart_value"
        /\ pc = "done" =>
              /\ result.kind = "returned"
              /\ \/ result.offer = None
                 \/ result.offer[1].type \in { "rule", "campaign" }

\* a call on a cart with an incomplete item and a less_than rule with
\* cart_value_max 100 returned the category rule's offer
C23_Witness ==
    /\ pc = "done"
    /\ Incomplete(cartItems)
    /\ Len(activeRules) = 2
    /\ activeRules[1].trigger_conditions.cart_value_operator = Some("less_than")
    /\ activeRules[1].trigger_conditions.cart_value_max = Some(100)
    /\ result.kind = "returned"
    /\ result.offer # None
    /\ result.offer[1].id = "R2"

-----------------------------------------------------------------------------
(* Two evaluateUpsells calls in flight over one store. Each call gives up    *)
(* control at its awaits: the reads and the insert.                          *)

OwnerRuleCatalog ==
    { RuleRow("R1", "u1", "active", 40, "cart_value",
              [ NoConditions EXCEPT !.cart_value_operator = Some("greater_than"),
                                    !.cart_value_min = Some(50) ]),
      RuleRow("R2", "u1", "active", 100, "category",
              [ NoConditions EXCEPT !.category = Some("coffee"),
                                    !.category_operator = Some("contains") ]),
      RuleRow("R5", "u2", "active", 70, "category",
              [ NoConditions EXCEPT !.category = Some("coffee"),
                                    !.category_operator = Some("contains") ]) }

ConcCampaignTables ==
    { << >>,
      << CampaignRow("K2", "active", 40, FALSE, << "P1" >>,
                     Some(<< Override("R1", "enhance", Boost(20)),
                             Override("R2", "suppress", None) >>), 1, None) >> }

InitConc ==
    /\ upsell_rules \in Tables(OwnerRuleCatalog, MaxRules)
    /\ campaigns \in ConcCampaignTables
    /\ upsell_evaluations = << >>
    /\ now = 2
    /\ cartItems \in Carts
    /\ sessionId = "s1"
    /\ user_id = "u1"
    /\ timeContext = [ timeOnSite |-> Some(45), activeTimeOnSite |-> None ]
    /\ pc = "reading"
    /\ calls = 1
    /\ rulesRead = "none"
    /\ campaignsRead = "none"
    /\ activeRules = << >>
    /\ activeCampaigns = << >>
    /\ matchingCampaigns = << >>
    /\ matchingRules = << >>
    /\ overriddenRules = << >>
    /\ bestOffer = None
    /\ insertAttempts = 0
    /\ insertOutcome = "none"
    /\ result = NoResult
    /\ prevResult = NoResult
    /\ \E items \in Carts, uid \in { "u1", "u2" } :
          other = [ NoCall EXCEPT !.pc = "reading", !.cartItems = items,
                                  !.sessionId = "s2", !.user_id = uid,
                                  !.timeContext = [ timeOnSite |-> Some(45),
                                                    activeTimeOnSite |-> None ] ]
    /\ update = NoUpdate
    /\ OrchestratorInit

\* the variables of the first call, the tables it only reads included
firstCallVars ==
    << upsell_rules, campaigns, now, cartItems, sessionId, user_id, timeContext,
       pc, calls, rulesRead, campaignsRead, activeRules, activeCampaigns,
       matchingCampaigns, matchingRules, overriddenRules, bestOffer,
       insertAttempts, insertOutcome, result, prevResult >>

\* OtherReadsComplete answering the rules read from what the manager fetched
\* for the call before
OtherReadsComplete_sharedCache ==
    /\ other.pc = "reading"
    /\ \E ro \in { "ok", "error" }, co \in { "ok", "error" } :
        other' = [ other EXCEPT
            !.pc = "fetched",
            !.rulesRead = ro,
            !.campaignsRead = co,
            !.activeRules = IF pc # "reading" THEN activeRules
                            ELSE getActiveRules(upsell_rules, other.user_id, ro),
            !.activeCampaigns = getActiveCampaigns(campaigns, other.user_id, co) ]
    /\ UNCHANGED << firstCallVars, upsell_evaluations, update, orchVars >>

\* Promise.all([getActiveRules, getActiveCampaigns]) of the second call settles
OtherReadsComplete ==
    /\ other.pc = "reading"
    /\ \E ro \in { "ok", "error" }, co \in { "ok", "error" } :
        other' = [ other EXCEPT
            !.pc = "fetched",
            !.rulesRead = ro,
            !.campaignsRead = co,
            !.activeRules = getActiveRules(upsell_rules, other.user_id, ro),
            !.activeCampaigns = getActiveCampaigns(campaigns, other.user_id, co) ]
    /\ UNCHANGED << firstCallVars, upsell_evaluations, update, orchVars >>

\* the second call runs from the reads to its insert without giving up control:
\* evaluateCampaigns, evaluateRules, applyRuleOverrides, selectBestUpsell
OtherEvaluate ==
    /\ other.pc = "fetched"
    /\ LET mc == evaluateCampaigns(other.activeCampaigns, other.cartItems,
                                   other.timeContext)
           mr == evaluateRules(other.activeRules, other.cartItems, other.timeContext)
           ov == applyRuleOverrides(mr, mc).overriddenRules
       IN  other' = [ other EXCEPT
               !.pc = "tracking",
               !.bestOffer = selectBestUpsell(mc, ov, other.cartItems) ]
    /\ UNCHANGED << firstCallVars, upsell_evaluations, update, orchVars >>

\* the insert of the second call settles and the call returns
OtherInsertComplete ==
    /\ other.pc = "tracking"
    /\ \E outcome \in { "ok", "error", "throw" } :
        /\ upsell_evaluations' =
              trackUpsellEvaluation(upsell_evaluations,
                  evaluationRecord(other.sessionId, other.cartItems,
                                   other.bestOffer, other.user_id, now),
                  outcome)
        /\ other' = [ other EXCEPT
               !.pc = "done",
               !.insertOutcome = outcome,
               !.result = [ kind |-> "returned", offer |-> other.bestOffer ] ]
    /\ UNCHANGED << firstCallVars, update, orchVars >>

NextConc ==
    \/ ReadsComplete
    \/ Match
    \/ Resolve
    \/ Select
    \/ InsertComplete
    \/ OtherReadsComplete
    \/ OtherEvaluate
    \/ OtherInsertComplete

ConcSpec == InitConc /\ [][NextConc]_vars

\* the offer of a call that runs with nothing else in flight, given the
\* answers its two reads get
Alone(items, uid, tc, ro, co) ==
    LET ar == getActiveRules(upsell_rules, uid, ro)
        ac == getActiveCampaigns(campaigns, uid, co)
        mc == evaluateCampaigns(ac, items, tc)
        mr == evaluateRules(ar, items, tc)
    IN  selectBestUpsell(mc, applyRuleOverrides(mr, mc).overriddenRules, items)

\* C24: with two calls in flight in any interleaving, each call returns the
\* offer it would return when run alone on the same store with the same
\* arguments.
C24_ConcurrentCallsIndependent ==
    /\ pc = "done" =>
          result = [ kind |-> "returned",
                     offer |-> Alone(cartItems, user_id, timeContext,
                                     rulesRead, campaignsRead) ]
    /\ other.pc = "done" =>
          other.result = [ kind |-> "returned",
                           offer |-> Alone(other.cartItems, other.user_id,
                                           other.timeContext, other.rulesRead,
                                           other.campaignsRead) ]

\* both calls returned, for different owners and with different offers, and
\* the record of the second call was stored before that of the first
C24_Witness ==
    /\ pc = "done"
    /\ other.pc = "done"
    /\ other.user_id # user_id
    /\ result.offer # None
    /\ other.result.offer # None
    /\ result.offer # other.result.offer
    /\ Len(upsell_evaluations) = 2
    /\ upsell_evaluations[1].session_id = "s2"

\* C25: the returned offer comes from the candidate set: it is tagged campaign
\* and carries the id and upsell_products of a matched campaign, or it is
\* tagged rule and carries the id and target_products of a matched rule that
\* is still present after override resolution.
C25_OfferComesFromCandidates ==
    (Selected /\ bestOffer # None) =>
        \/ /\ bestOffer[1].type = "campaign"
           /\ \E i \in DOMAIN matchingCampaigns :
                 /\ matchingCampaigns[i].id = bestOffer[1].id
                 /\ matchingCampaigns[i].upsell_products = bestOffer[1].target_products
        \/ /\ bestOffer[1].type = "rule"
           /\ \E j \in DOMAIN overriddenRules :
                 /\ overriddenRules[j].id = bestOffer[1].id
                 /\ overriddenRules[j].target_products = bestOffer[1].target_products
           /\ \E j \in DOMAIN matchingRules :
                 matchingRules[j].id = bestOffer[1].id

\* a rule was offered while a matched campaign had suppressed another matched
\* rule of higher priority
C25_Witness ==
    /\ Selected
    /\ bestOffer # None
    /\ bestOffer[1].type = "rule"
    /\ matchingCampaigns # << >>
    /\ \E j \in DOMAIN matchingRules :
          /\ Suppressed(matchingRules[j].id)
          /\ \A k \in DOMAIN overriddenRules :
                matchingRules[j].priority > overriddenRules[k].priority

\* the record is that of the current call and of the offer it selected
Carries(rec) ==
    /\ rec.session_id = sessionId
    /\ rec.cart_items = cartItems
    /\ rec.offer_id = IF bestOffer = None THEN None ELSE Some(bestOffer[1].id)
    /\ rec.offer_type = IF bestOffer = None THEN None ELSE Some(bestOffer[1].type)

\* C26: a call issues no insert before its offer is selected and exactly one
\* after; the table changes only by that insert, which appends one record
\* carrying the session id, the cart items and the id and type of the offer the
\* call returns (both absent for null) and leaves the earlier records as they
\* were; an insert the store accepts does append.
C26_OneAppendAfterSelection ==
    /\ [](pc \in { "idle", "reading", "fetched", "matched", "resolved" }
              => insertAttempts = 0)
    /\ [](pc \in { "tracking", "done" } => insertAttempts = 1)
    /\ [][ upsell_evaluations' # upsell_evaluations =>
              /\ pc = "tracking"
              /\ Len(upsell_evaluations') = Len(upsell_evaluations) + 1
              /\ SubSeq(upsell_evaluations', 1, Len(upsell_evaluations))
                    = upsell_evaluations
              /\ Carries(upsell_evaluations'[Len(upsell_evaluations')])
              /\ result'.offer = bestOffer ]_vars
    /\ [][ (pc = "tracking" /\ pc' = "done" /\ insertOutcome' = "ok") =>
              Len(upsell_evaluations') = Len(upsell_evaluations) + 1 ]_vars

\* two calls of the same session have returned, the first with an offer, and
\* both records are in the table
C26_Witness ==
    /\ pc = "done"
    /\ calls = 2
    /\ Len(upsell_evaluations) = 2
    /\ upsell_evaluations[1].session_id = upsell_evaluations[2].session_id
    /\ upsell_evaluations[1].offer_id # None
    /\ Carries(upsell_evaluations[2])

Ids(rows) == [ i \in DOMAIN rows |-> rows[i].id ]

\* some override of a matched campaign names the rule
NamedByMatched(id) ==
    \E k \in DOMAIN matchedOverrides(matchingCampaigns) :
        matchedOverrides(matchingCampaigns)[k].rule_id = id

\* some override of an active campaign that did not match names the rule
NamedByUnmatched(id) ==
    \E i \in DOMAIN activeCampaigns :
        /\ \A j \in DOMAIN matchingCampaigns : matchingCampaigns[j] # activeCampaigns[i]
        /\ activeCampaigns[i].rule_overrides # None
        /\ \E k \in DOMAIN activeCampaigns[i].rule_overrides[1] :
              activeCampaigns[i].rule_overrides[1][k].rule_id = id

\* C27: after override resolution the resolved rules are matched rules, in the
\* order of the matched list; a matched rule that no override of a matched
\* campaign names is in the result unchanged, whatever the campaigns that did
\* not match say; and overrides naming rules outside the matched list add
\* nothing.
C27_ResolutionOnlyRemovesOrReprioritises ==
    Resolved =>
        /\ SeqFilter(Ids(matchingRules), Range(Ids(overriddenRules)))
              = Ids(overriddenRules)
        /\ \A j \in DOMAIN matchingRules :
              ~NamedByMatched(matchingRules[j].id) =>
                  \E k \in DOMAIN overriddenRules :
                      overriddenRules[k] = matchingRules[j]
        /\ \A k \in DOMAIN overriddenRules :
              \E j \in DOMAIN matchingRules :
                  /\ matchingRules[j].id = overriddenRules[k].id
                  /\ [ overriddenRules[k] EXCEPT !.priority = 0 ]
                        = [ matchingRules[j] EXCEPT !.priority = 0 ]

\* resolution ran with a matched rule that only a campaign that did not match
\* names, and with a matched campaign naming a rule that was not matched; the
\* matched rule came through unchanged
C27_Witness ==
    /\ Resolved
    /\ \E j \in DOMAIN matchingRules :
          /\ NamedByUnmatched(matchingRules[j].id)
          /\ ~NamedByMatched(matchingRules[j].id)
          /\ \E k \in DOMAIN overriddenRules : overriddenRules[k] = matchingRules[j]
    /\ \E k \in DOMAIN matchedOverrides(matchingCampaigns) :
          \A j \in DOMAIN matchingRules :
              matchingRules[j].id # matchedOverrides(matchingCampaigns)[k].rule_id

-----------------------------------------------------------------------------
(* updateRulePriority: the priority of a stored rule is read, boosted,       *)
(* clamped and written back.                                                 *)

mathMax(a, b) == IF a >= b THEN a ELSE b
mathMin(a, b) == IF a <= b THEN a ELSE b

\* newPriority with 0 as the floor
newPriority_floorZero(current, priority_boost) ==
    mathMax(0, mathMin(100, current + priority_boost))

\* Math.max(1, Math.min(100, currentRule.priority + priority_boost))
newPriority(current, priority_boost) ==
    mathMax(1, mathMin(100, current + priority_boost))

\* priorities the rules are stored with before any update (the schema allows
\* 0 to 100)
StoredPriorities == { 0, 50, 100 }

PriorityBoosts == { -120, -30, 0, 30, 120 }

OwnerAt == << "u1", "u2", "u1", "u2" >>

PriorityTables(n) ==
    UNION { { [ i \in 1..k |-> RuleRow(RuleIdAt[i], OwnerAt[i], "active", f[i],
                                       "cart_value", NoConditions) ] :
                f \in [ 1..k -> StoredPriorities ] } :
            k \in 1..n }

\* the rows of the table with this id and owner
RowsOf(table, id, uid) ==
    SeqFilter(table, { r \in Range(table) : r.id = id /\ r.user_id = uid })

InitPriority ==
    /\ upsell_rules \in PriorityTables(MaxRules)
    /\ campaigns = << >>
    /\ upsell_evaluations = << >>
    /\ now = 2
    /\ cartItems = << >>
    /\ sessionId = "s1"
    /\ user_id = "u1"
    /\ timeContext = [ timeOnSite |-> None, activeTimeOnSite |-> None ]
    /\ pc = "idle"
    /\ calls = 0
    /\ rulesRead = "none"
    /\ campaignsRead = "none"
    /\ activeRules = << >>
    /\ activeCampaigns = << >>
    /\ matchingCampaigns = << >>
    /\ matchingRules = << >>
    /\ overriddenRules = << >>
    /\ bestOffer = None
    /\ insertAttempts = 0
    /\ insertOutcome = "none"
    /\ result = NoResult
    /\ prevResult = NoResult
    /\ other = NoCall
    /\ update = NoUpdate
    /\ OrchestratorInit

\* everything updateRulePriority leaves alone but the rules table
notUpdateVars ==
    << campaigns, upsell_evaluations, now, cartItems, sessionId, user_id,
       timeContext, pc, calls, rulesRead, campaignsRead, activeRules,
       activeCampaigns, matchingCampaigns, matchingRules, overriddenRules,
       bestOffer, insertAttempts, insertOutcome, result, prevResult, other,
       orchVars >>

\* updateRulePriority is called and issues its select
UpdateCall ==
    /\ update.pc = "idle"
    /\ update.count < MaxUpdates
    /\ \E id \in Range(Ids(upsell_rules)), uid \in { "u1", "u2" },
          boost \in PriorityBoosts :
        update' = [ update EXCEPT !.pc = "fetching", !.rule_id = id,
                                  !.user_id = uid, !.priority_boost = boost,
                                  !.count = @ + 1, !.result = "none" ]
    /\ UNCHANGED << upsell_rules, notUpdateVars >>

\* the select(...).single() settles: one row, or an error (no row included)
UpdateFetched ==
    /\ update.pc = "fetching"
    /\ \E outcome \in { "ok", "error" } :
        LET rows == RowsOf(upsell_rules, update.rule_id, update.user_id)
        IN  IF outcome = "ok" /\ Len(rows) = 1
            THEN update' = [ update EXCEPT !.pc = "updating",
                                           !.currentPriority = rows[1].priority ]
            ELSE update' = [ update EXCEPT !.pc = "idle", !.result = "raised" ]
    /\ UNCHANGED << upsell_rules, notUpdateVars >>

\* the update(...).single() settles: the row is written, or an error is raised
UpdateStored ==
    /\ update.pc = "updating"
    /\ \E outcome \in { "ok", "error" } :
        IF outcome = "ok"
        THEN /\ upsell_rules' =
                  [ i \in DOMAIN upsell_rules |->
                      IF /\ upsell_rules[i].id = update.rule_id
                         /\ upsell_rules[i].user_id = update.user_id
                      THEN [ upsell_rules[i] EXCEPT !.priority =
                               newPriority(update.currentPriority,
                                           update.priority_boost) ]
                      ELSE upsell_rules[i] ]
             /\ update' = [ update EXCEPT !.pc = "idle", !.result = "updated",
                                          !.updated = @ \cup { update.rule_id } ]
        ELSE /\ upsell_rules' = upsell_rules
             /\ update' = [ update EXCEPT !.pc = "idle", !.result = "raised" ]
    /\ UNCHANGED notUpdateVars

NextPriority ==
    \/ UpdateCall
    \/ UpdateFetched
    \/ UpdateStored

PrioritySpec == InitPriority /\ [][NextPriority]_vars

\* the priority stored for the rule
PriorityIn(table, id) ==
    table[CHOOSE i \in DOMAIN table : table[i].id = id].priority

\* sum brought into 1..100
Clamped(n) == IF n < 1 THEN 1 ELSE IF n > 100 THEN 100 ELSE n

\* C28: a successful updateRulePriority stores the rule's priority plus the
\* boost brought into 1..100 and touches no other rule, so every rule updated
\* at least once has a stored priority within 1..100.
C28_StoredPriorityClamped ==
    /\ [](\A id \in update.updated :
              PriorityIn(upsell_rules, id) >= 1 /\ PriorityIn(upsell_rules, id) <= 100)
    /\ [][ upsell_rules' # upsell_rules =>
              /\ update'.result = "updated"
              /\ PriorityIn(upsell_rules', update.rule_id)
                    = Clamped(PriorityIn(upsell_rules, update.rule_id)
                              + update.priority_boost)
              /\ \A i \in DOMAIN upsell_rules :
                    upsell_rules[i].id # update.rule_id =>
                        upsell_rules'[i] = upsell_rules[i] ]_vars

\* a rule stored with priority 0 was boosted by -30 and is stored with 1, and
\* a later boost of 120 took it to 100
C28_Witness ==
    /\ update.result = "updated"
    /\ update.count = 2
    /\ update.priority_boost = 120
    /\ update.currentPriority = 1
    /\ PriorityIn(upsell_rules, update.rule_id) = 100

-----------------------------------------------------------------------------
(* ProductionOrchestrator: the scheduled jobs and the daily insight run      *)

\* the jobs of startScheduledJobs, in the order they are scheduled
JobNames == << "daily-insights", "weekly-analysis", "monthly-optimization" >>

\* Map.prototype.set
mapSet(map, key, value) ==
    [ k \in DOMAIN map \cup { key } |-> IF k = key THEN value ELSE map[k] ]

\* scheduleJob: setInterval creates a timer, scheduledJobs.set(name, job)
scheduleJob(st, name) ==
    [ timers |-> Append(st.timers, [ name |-> name, live |-> TRUE ]),
      scheduledJobs |-> mapSet(st.scheduledJobs, name, Len(st.timers) + 1) ]

RECURSIVE scheduleJobs(_, _)
\* the scheduleJob calls of startScheduledJobs, one after the other
scheduleJobs(st, names) ==
    IF names = << >> THEN st
    ELSE scheduleJobs(scheduleJob(st, Head(names)), Tail(names))

\* initialize()
Initialize ==
    /\ ~isRunning
    /\ \E outcome \in { "ok", "error" } :
        isRunning' = (outcome = "ok")
    /\ UNCHANGED << scheduledJobs, timers, daily, firstCallVars,
                    upsell_evaluations, other, update >>

\* startScheduledJobs()
StartScheduledJobs ==
    /\ Len(timers) < MaxStarts * Len(JobNames)
    /\ LET st == scheduleJobs([ timers |-> timers, scheduledJobs |-> scheduledJobs ],
                              JobNames)
       IN  /\ timers' = st.timers
           /\ scheduledJobs' = st.scheduledJobs
    /\ UNCHANGED << isRunning, daily, firstCallVars, upsell_evaluations, other,
                    update >>

\* stop(): clearInterval on every entry of scheduledJobs, then clear()
Stop ==
    /\ timers' = [ t \in DOMAIN timers |->
                     IF \E n \in DOMAIN scheduledJobs : scheduledJobs[n] = t
                     THEN [ timers[t] EXCEPT !.live = FALSE ]
                     ELSE timers[t] ]
    /\ scheduledJobs' = << >>
    /\ isRunning' = FALSE
    /\ UNCHANGED << daily, firstCallVars, upsell_evaluations, other, update >>

\* the lists of active users the profiles select can return
UserLists(n) ==
    UNION { { u \in [ 1..k -> { "u1", "u2", "u3" } ] :
                \A i, j \in 1..k : i # j => u[i] # u[j] } : k \in 0..n }

\* a live daily-insights timer fires: generateDailyInsights issues its select
TimerFires ==
    /\ daily.pc \in { "idle", "done", "raised" }
    /\ daily.runs < MaxRuns
    /\ \E t \in DOMAIN timers : timers[t].live /\ timers[t].name = JobNames[1]
    /\ daily' = [ NoRun EXCEPT !.pc = "reading", !.runs = daily.runs + 1 ]
    /\ UNCHANGED << isRunning, scheduledJobs, timers, firstCallVars,
                    upsell_evaluations, other, update >>

\* the profiles select settles; with no users the run returns at once
UsersRead ==
    /\ daily.pc = "reading"
    /\ \/ daily' = [ daily EXCEPT !.pc = "raised" ]
       \/ \E users \in UserLists(MaxUsers) :
             daily' = [ daily EXCEPT
                 !.pc = IF users = << >> THEN "done" ELSE "looping",
                 !.users = users, !.i = 1 ]
    /\ UNCHANGED << isRunning, scheduledJobs, timers, firstCallVars,
                    upsell_evaluations, other, update >>

\* ProcessUser leaving the loop at the first user that fails
ProcessUser_abortOnFailure ==
    /\ daily.pc = "looping"
    /\ \E outcome \in { "ok", "throw" } :
        daily' = [ daily EXCEPT
            !.attempted = Append(@, daily.users[daily.i]),
            !.users_processed = IF outcome = "ok" THEN @ + 1 ELSE @,
            !.errors = IF outcome = "ok" THEN @
                       ELSE Append(@, daily.users[daily.i]),
            !.i = @ + 1,
            !.pc = IF daily.i = Len(daily.users) \/ outcome = "throw"
                   THEN "done" ELSE "looping" ]
    /\ UNCHANGED << isRunning, scheduledJobs, timers, firstCallVars,
                    upsell_evaluations, other, update >>

\* one turn of the loop: processUserInsights for the next user settles; after
\* the last user the results are returned
ProcessUser ==
    /\ daily.pc = "looping"
    /\ \E outcome \in { "ok", "throw" } :
        daily' = [ daily EXCEPT
            !.attempted = Append(@, daily.users[daily.i]),
            !.users_processed = IF outcome = "ok" THEN @ + 1 ELSE @,
            !.errors = IF outcome = "ok" THEN @
                       ELSE Append(@, daily.users[daily.i]),
            !.i = @ + 1,
            !.pc = IF daily.i = Len(daily.users) THEN "done" ELSE "looping" ]
    /\ UNCHANGED << isRunning, scheduledJobs, timers, firstCallVars,
                    upsell_evaluations, other, update >>

NextOrch ==
    \/ Initialize
    \/ StartScheduledJobs
    \/ Stop
    \/ TimerFires
    \/ UsersRead
    \/ ProcessUser

\* the orchestrator after construction; no evaluation or update in flight
InitOrch ==
    /\ upsell_rules = << >>
    /\ campaigns = << >>
    /\ upsell_evaluations = << >>
    /\ now = 2
    /\ cartItems = << >>
    /\ sessionId = "s1"
    /\ user_id = "u1"
    /\ timeContext = [ timeOnSite |-> None, activeTimeOnSite |-> None ]
    /\ pc = "idle"
    /\ calls = 0
    /\ rulesRead = "none"
    /\ campaignsRead = "none"
    /\ activeRules = << >>
    /\ activeCampaigns = << >>
    /\ matchingCampaigns = << >>
    /\ matchingRules = << >>
    /\ overriddenRules = << >>
    /\ bestOffer = None
    /\ insertAttempts = 0
    /\ insertOutcome = "none"
    /\ result = NoResult
    /\ prevResult = NoResult
    /\ other = NoCall
    /\ update = NoUpdate
    /\ OrchestratorInit

OrchSpec == InitOrch /\ [][NextOrch]_vars

\* C29: whenever stop() has emptied scheduledJobs, no timer created by
\* scheduleJob is live.
C29_NoLiveTimerAfterStop ==
    scheduledJobs = << >> => \A t \in DOMAIN timers : ~timers[t].live

\* C30: when generateDailyInsights returns after a successful read of the user
\* list, every user was attempted exactly once, in order, and users_processed
\* plus the number of errors is the number of users.
C30_EveryUserAttemptedOnce ==
    daily.pc = "done" =>
        /\ daily.attempted = daily.users
        /\ daily.users_processed + Len(daily.errors) = Len(daily.users)

\* a run over three users returned after the first user failed and the other
\* two were processed
C30_Witness ==
    /\ daily.pc = "done"
    /\ Len(daily.users) = 3
    /\ daily.errors = << daily.users[1] >>
    /\ daily.users_processed = 2

====
